---------------------------- MODULE Spec2Model ----------------------------
(***************************************************************************)
(* Tag-Explorer: the data-refresh and dynamic-tagging pipeline.            *)
(*                                                                         *)
(* The store is the four tables stocks, tags, stock_tags and update_stats. *)
(* The repository holds several variants of each endpoint; every variant   *)
(* is modelled under its own name (suffix = the file it lives in):         *)
(*   _golden    src/api/update-tags.js, second file (line 172 on)          *)
(*   _legacy    src/api/update-tags.js, first file (lines 1-171)           *)
(*   _unified   src/pages/api/update-all-data.js                           *)
(*   _unifiedB  src/api/update-all-data.js                                 *)
(*   _full      src/unnamed/part_005, /api/full-update.js (lines 1-214)    *)
(*   _tagsOnly  src/unnamed/part_005, /api/update-tags.js (line 215 on)    *)
(*   _dataA     src/api/update-data.js                                     *)
(*   _dataP     src/pages/api/update-data.js                               *)
(*   _standard  src/pages/api/update-tags.js                               *)
(*   _batch     src/unnamed/part_003, pages/api/batch-update.js            *)
(*                                                                         *)
(* Tag names and family labels are Chinese in the source; strings of the   *)
(* model are ASCII, one per source string:                                 *)
(*   MegaCap 超大盘股   LargeCap 大盘股   MidCap 中盘股   SmallCap 小盘股      *)
(*   MicroCap 微盘股                                                        *)
(*   LimitUp 涨停板  StrongUp 强势上涨  MildUp 温和上涨  SlightUp 微涨        *)
(*   Flat 平盘  SlightDown 微跌  MildDown 温和下跌  StrongDown 大幅下跌       *)
(*   LimitDown 跌停板                                                       *)
(*   HighPrice 高价股  MidPrice 中价股  LowPrice 低价股  PennyPrice 超低价股  *)
(*   HugeVolume 超高成交量  HighVolume 高成交量  MediumVolume 中等成交量      *)
(*   LowVolume 低成交量                                                     *)
(*   HighROE 高ROE  LowPE 低市盈率  Value 价值股  Growth 成长股               *)
(*   HighDividend 高股息  HighPayout 高分红  LowPayout 低分红                *)
(*   High52w 52周新高  Low52w 52周新低  HighGrowth 高增长  BigDrop 大跌       *)
(*   family labels: dynamic 'dynamic', PricePerf 股价表现, CapClass 市值分类, *)
(*   FinPerf 财务表现, DividendIncome 分红收益, SectorClass 行业分类,         *)
(*   SpecialList 特殊名单类                                                 *)
(*                                                                         *)
(* Units.  market_cap is held in thousands of dollars (K$) so that the     *)
(* thresholds 200e9 .. 2e9 fit 32-bit integers: a source threshold        *)
(* of N dollars is N / 1000 here.  Prices are whole dollars and            *)
(* change_percent whole percents.                                          *)
(***************************************************************************)
EXTENDS Integers, Sequences, FiniteSets, TLC

VARIABLES
    stocks,        \* table stocks: ticker -> row of column values
    tags,          \* table tags: tag name -> family label, or NoTag
    stock_tags,    \* table stock_tags: set of <<ticker, tag name>>
    update_stats,  \* table update_stats: sequence of audit rows
    call,          \* the operation invoked last, with its inputs
    ret            \* what that operation returned / observed

vars == <<stocks, tags, stock_tags, update_stats, call, ret>>

-----------------------------------------------------------------------------
(* JavaScript / SQL values.  A column value or a JS number is a record     *)
(* [k, v]: k = "num" (finite number v), "null" (SQL NULL / JS null),       *)
(* "undef" (JS undefined), "nan" (NaN), "inf" (v = 1: Infinity, v = -1:    *)
(* -Infinity).                                                             *)

Num(n) == [k |-> "num", v |-> n]
NULL == [k |-> "null", v |-> 0]
UNDEF == [k |-> "undef", v |-> 0]
NaN == [k |-> "nan", v |-> 0]
Inf(s) == [k |-> "inf", v |-> s]

\* if (x): null, undefined, 0 and NaN are falsy
Truthy(x) == (x.k = "num" /\ x.v # 0) \/ x.k = "inf"

\* x !== null && x !== undefined
NotNullish(x) == x.k # "null" /\ x.k # "undef"

\* x > n and x < n for a finite n: ToNumber(null) = 0, ToNumber(undefined) = NaN,
\* every comparison with NaN is false
JsGT(x, n) ==
    CASE x.k = "num" -> x.v > n
      [] x.k = "null" -> 0 > n
      [] x.k = "inf" -> x.v > 0
      [] OTHER -> FALSE

JsLT(x, n) ==
    CASE x.k = "num" -> x.v < n
      [] x.k = "null" -> 0 < n
      [] x.k = "inf" -> x.v < 0
      [] OTHER -> FALSE

JsGE(x, n) ==
    CASE x.k = "num" -> x.v >= n
      [] x.k = "null" -> 0 >= n
      [] x.k = "inf" -> x.v > 0
      [] OTHER -> FALSE

JsLE(x, n) ==
    CASE x.k = "num" -> x.v <= n
      [] x.k = "null" -> 0 <= n
      [] x.k = "inf" -> x.v < 0
      [] OTHER -> FALSE

\* node-postgres sends a JS undefined parameter as SQL NULL
PgParam(x) == IF x.k = "undef" THEN NULL ELSE x

-----------------------------------------------------------------------------
(* Tag families of the specification's rule table.                         *)

SizeTags == {"MegaCap", "LargeCap", "MidCap", "SmallCap", "MicroCap"}

MomentumTags == {"LimitUp", "StrongUp", "MildUp", "SlightUp", "Flat",
                 "SlightDown", "MildDown", "StrongDown", "LimitDown"}

PriceTags == {"HighPrice", "MidPrice", "LowPrice", "PennyPrice"}

(* Thresholds of calculateDynamicTags, market_cap in K$.                   *)
CapMega == 200000000
CapLarge == 50000000
CapMid == 10000000
CapSmall == 2000000

-----------------------------------------------------------------------------
(* Rule engine of the tags-only endpoint: calculateDynamicTags,            *)
(* src/unnamed/part_005 lines 218-280.  The function returns a list; no    *)
(* tag is pushed twice, so the list is modelled as the set of its members. *)

sizeTags_tagsOnly(stockData) ==
    IF Truthy(stockData.market_cap)
    THEN IF JsGT(stockData.market_cap, CapMega) THEN {"MegaCap"}
         ELSE IF JsGT(stockData.market_cap, CapLarge) THEN {"LargeCap"}
         ELSE IF JsGT(stockData.market_cap, CapMid) THEN {"MidCap"}
         ELSE IF JsGT(stockData.market_cap, CapSmall) THEN {"SmallCap"}
         ELSE {"MicroCap"}
    ELSE {}

momentumTags_tagsOnly(stockData) ==
    IF NotNullish(stockData.change_percent)
    THEN IF JsGT(stockData.change_percent, 10) THEN {"LimitUp"}
         ELSE IF JsGT(stockData.change_percent, 5) THEN {"StrongUp"}
         ELSE IF JsGT(stockData.change_percent, 2) THEN {"MildUp"}
         ELSE IF JsGT(stockData.change_percent, 0) THEN {"SlightUp"}
         ELSE IF JsLT(stockData.change_percent, -10) THEN {"LimitDown"}
         ELSE IF JsLT(stockData.change_percent, -5) THEN {"StrongDown"}
         ELSE IF JsLT(stockData.change_percent, -2) THEN {"MildDown"}
         ELSE IF JsLT(stockData.change_percent, 0) THEN {"SlightDown"}
         ELSE {"Flat"}
    ELSE {}

priceTags_tagsOnly(stockData) ==
    IF Truthy(stockData.last_price)
    THEN IF JsGT(stockData.last_price, 1000) THEN {"HighPrice"}
         ELSE IF JsGT(stockData.last_price, 100) THEN {"MidPrice"}
         ELSE IF JsGT(stockData.last_price, 10) THEN {"LowPrice"}
         ELSE {"PennyPrice"}
    ELSE {}

volumeTags_tagsOnly(stockData) ==
    IF Truthy(stockData.volume)
    THEN IF JsGT(stockData.volume, 100000000) THEN {"HugeVolume"}
         ELSE IF JsGT(stockData.volume, 50000000) THEN {"HighVolume"}
         ELSE IF JsGT(stockData.volume, 10000000) THEN {"MediumVolume"}
         ELSE IF JsLT(stockData.volume, 1000000) THEN {"LowVolume"}
         ELSE {}
    ELSE {}

\* sector_zh is [k |-> "null"] or [k |-> "str", has |-> the keywords the text contains]:
\* sector.includes(w) is w \in has.  KeJi 科技, XinXiJiShu 信息技术, YiLiao 医疗,
\* ShengWu 生物, JinRong 金融, YinHang 银行, NengYuan 能源, ShiYou 石油, XiaoFei 消费,
\* LingShou 零售; tags TechStock 科技股, PharmaStock 医药股, FinanceStock 金融股,
\* EnergyStock 能源股, ConsumerStock 消费股.
NoSector == [k |-> "null", has |-> {}]
Sector(words) == [k |-> "str", has |-> words]

sectorTags_tagsOnly(stockData) ==
    IF stockData.sector_zh.k = "str"
    THEN LET has == stockData.sector_zh.has IN
         (IF "KeJi" \in has \/ "XinXiJiShu" \in has THEN {"TechStock"} ELSE {})
         \cup (IF "YiLiao" \in has \/ "ShengWu" \in has THEN {"PharmaStock"} ELSE {})
         \cup (IF "JinRong" \in has \/ "YinHang" \in has THEN {"FinanceStock"} ELSE {})
         \cup (IF "NengYuan" \in has \/ "ShiYou" \in has THEN {"EnergyStock"} ELSE {})
         \cup (IF "XiaoFei" \in has \/ "LingShou" \in has THEN {"ConsumerStock"} ELSE {})
    ELSE {}

calculateDynamicTags_tagsOnly(stockData) ==
    sizeTags_tagsOnly(stockData) \cup momentumTags_tagsOnly(stockData)
        \cup priceTags_tagsOnly(stockData) \cup volumeTags_tagsOnly(stockData)
        \cup sectorTags_tagsOnly(stockData)

-----------------------------------------------------------------------------
(* Rule engine of src/api/update-all-data.js: calculateDynamicTags, lines  *)
(* 153-187.  parseFloat of a number is that number.  The sector text is    *)
(* pushed as a tag of its own, written SectorName here.                    *)

sizeTags_unifiedB(stock) ==
    IF Truthy(stock.market_cap)
    THEN IF JsGT(stock.market_cap, CapMega) THEN {"MegaCap"}
         ELSE IF JsGT(stock.market_cap, CapLarge) THEN {"LargeCap"}
         ELSE IF JsGT(stock.market_cap, CapMid) THEN {"MidCap"}
         ELSE IF JsGT(stock.market_cap, CapSmall) THEN {"SmallCap"}
         ELSE {"MicroCap"}
    ELSE {}

priceTags_unifiedB(stock) ==
    IF Truthy(stock.last_price)
    THEN IF JsGT(stock.last_price, 500) THEN {"HighPrice"}
         ELSE IF JsGT(stock.last_price, 100) THEN {"MidPrice"}
         ELSE IF JsLT(stock.last_price, 10) THEN {"LowPrice"}
         ELSE {}
    ELSE {}

momentumTags_unifiedB(stock) ==
    IF Truthy(stock.change_percent)
    THEN IF JsGT(stock.change_percent, 5) THEN {"StrongUp"}
         ELSE IF JsGT(stock.change_percent, 2) THEN {"MildUp"}
         ELSE IF JsLT(stock.change_percent, -5) THEN {"StrongDown"}
         ELSE IF JsLT(stock.change_percent, -2) THEN {"MildDown"}
         ELSE {}
    ELSE {}

sectorTags_unifiedB(stock) ==
    IF stock.sector_zh.k = "str" THEN {"SectorName"} ELSE {}

calculateDynamicTags_unifiedB(stock) ==
    sizeTags_unifiedB(stock) \cup priceTags_unifiedB(stock)
        \cup momentumTags_unifiedB(stock) \cup sectorTags_unifiedB(stock)

-----------------------------------------------------------------------------
(* Family calculators of src/pages/api/update-all-data.js, lines 105-153.  *)
(* allStocks is the result of SELECT ... FROM stocks: a function from the  *)
(* ticker to its row; order is the row order of that result (a sequence of *)
(* the tickers).  A calculator's effect is the applyTag calls it makes, in *)
(* order: a plan, a sequence of <<tag name, family label, tickers>>.       *)

RECURSIVE SelectSeq2(_, _)
\* seq.filter(t => t \in keep), keeping the order
SelectSeq2(seq, keep) ==
    IF seq = <<>> THEN <<>>
    ELSE IF Head(seq) \in keep THEN <<Head(seq)>> \o SelectSeq2(Tail(seq), keep)
    ELSE SelectSeq2(Tail(seq), keep)

RECURSIVE InsertDesc(_, _, _)
\* x put behind every element whose key is >= the key of x (a stable sort's step)
InsertDesc(sorted, x, key) ==
    IF sorted = <<>> THEN <<x>>
    ELSE IF key[Head(sorted)] >= key[x]
         THEN <<Head(sorted)>> \o InsertDesc(Tail(sorted), x, key)
         ELSE <<x>> \o sorted

RECURSIVE SortDesc(_, _)
\* validStocks.sort((a, b) => b.market_cap - a.market_cap): stable, descending
SortDesc(seq, key) ==
    IF seq = <<>> THEN <<>>
    ELSE InsertDesc(SortDesc(SubSeq(seq, 1, Len(seq) - 1), key), seq[Len(seq)], key)

SeqRange(seq) == {seq[i] : i \in 1..Len(seq)}

\* seq.slice(from, to): an end beyond the length is clamped to it
Slice(seq, from, to) ==
    SeqRange(SubSeq(seq, from + 1, IF to > Len(seq) THEN Len(seq) ELSE to))

calculateMarketCapTags(allStocks, order) ==
    LET valid == {t \in DOMAIN allStocks :
                     Truthy(allStocks[t].market_cap) /\ JsGT(allStocks[t].market_cap, 0)}
        validStocks == SortDesc(SelectSeq2(order, valid),
                                [t \in valid |-> allStocks[t].market_cap.v])
        total == Len(validStocks)
        largeCapCount == (total * 3) \div 10
        midCapCount == (total * 4) \div 10
    IN  IF total = 0 THEN <<>>
        ELSE << <<"LargeCap", "dynamic", Slice(validStocks, 0, largeCapCount)>>,
                <<"MidCap", "dynamic",
                  Slice(validStocks, largeCapCount, largeCapCount + midCapCount)>>,
                <<"SmallCap", "dynamic",
                  Slice(validStocks, largeCapCount + midCapCount, total)>> >>

calculatePriceTags(allStocks) ==
    LET validStocks == {t \in DOMAIN allStocks :
                           Truthy(allStocks[t].last_price) /\ JsGT(allStocks[t].last_price, 0)}
    IN  IF validStocks = {} THEN <<>>
        ELSE << <<"HighPrice", "dynamic",
                  {t \in validStocks : JsGE(allStocks[t].last_price, 200)}>>,
                <<"MidPrice", "dynamic",
                  {t \in validStocks : JsGE(allStocks[t].last_price, 50)
                                       /\ JsLT(allStocks[t].last_price, 200)}>>,
                <<"LowPrice", "dynamic",
                  {t \in validStocks : JsLT(allStocks[t].last_price, 50)}>> >>

calculateChangeTags(allStocks) ==
    LET validStocks == {t \in DOMAIN allStocks : NotNullish(allStocks[t].change_percent)}
    IN  IF validStocks = {} THEN <<>>
        ELSE << <<"StrongUp", "dynamic",
                  {t \in validStocks : JsGE(allStocks[t].change_percent, 5)}>>,
                <<"MildUp", "dynamic",
                  {t \in validStocks : JsGT(allStocks[t].change_percent, 0)
                                       /\ JsLT(allStocks[t].change_percent, 5)}>>,
                <<"MildDown", "dynamic",
                  {t \in validStocks : JsLT(allStocks[t].change_percent, 0)
                                       /\ JsGE(allStocks[t].change_percent, -5)}>>,
                <<"StrongDown", "dynamic",
                  {t \in validStocks : JsLT(allStocks[t].change_percent, -5)}>> >>

\* the tags a plan gives to one ticker
PlanTagsOf(plan, ticker) == {plan[i][1] : i \in {j \in 1..Len(plan) : ticker \in plan[j][3]}}

-----------------------------------------------------------------------------
(* The store.  tags.name is unique (the upserts name it as their conflict  *)
(* target), so table tags is a function from the name to the family label; *)
(* a tag id stands for its name.  stock_tags is unique on the pair.        *)

MaxStocks == 2
TickerNames == <<"AAA", "BBB", "CCC", "DDD">>
Tickers == {TickerNames[i] : i \in 1..MaxStocks}

NoTag == "absent"

TickersOf(st, tagName) == {p[1] : p \in {q \in st.stock_tags : q[2] = tagName}}

TagsOfTicker(st, ticker) == {p[2] : p \in {q \in st.stock_tags : q[1] = ticker}}

Store == [tags |-> tags, stock_tags |-> stock_tags]

\* SELECT id FROM tags WHERE name = $1, then INSERT INTO tags (name, type) when absent
selectOrInsertTag(st, tagName, tagType) ==
    IF st.tags[tagName] # NoTag THEN st
    ELSE [st EXCEPT !.tags[tagName] = tagType]

\* INSERT INTO tags (name, type) ... ON CONFLICT (name) DO UPDATE SET type = $2
upsertTag(st, tagName, tagType) == [st EXCEPT !.tags[tagName] = tagType]

\* DELETE FROM stock_tags WHERE tag_id = $1
deleteAssociations(st, tagName) ==
    [st EXCEPT !.stock_tags = {p \in @ : p[2] # tagName}]

\* INSERT INTO stock_tags ... ON CONFLICT DO NOTHING, once per ticker
insertIgnore(st, tagName, tickers) ==
    [st EXCEPT !.stock_tags = @ \cup {<<t, tagName>> : t \in tickers}]

(* applyTag, src/api/update-tags.js lines 231-265 (and, the same text,     *)
(* src/unnamed/part_005 lines 29-61): nothing on an empty list; else find  *)
(* or create the tag, delete its associations, insert the new ones in one  *)
(* statement without ON CONFLICT (after the delete no pair of this tag is  *)
(* left, and the list holds each ticker once, so the insert cannot clash). *)
applyTag_golden(st, tagName, tagType, tickers) ==
    IF tickers = {} THEN st
    ELSE insertIgnore(
             deleteAssociations(selectOrInsertTag(st, tagName, tagType), tagName),
             tagName, tickers)

applyTag_full(st, tagName, tagType, tickers) ==
    IF tickers = {} THEN st
    ELSE insertIgnore(
             deleteAssociations(selectOrInsertTag(st, tagName, tagType), tagName),
             tagName, tickers)

(* applyTag, src/pages/api/update-all-data.js lines 66-102: nothing on an  *)
(* empty list; else find or create the tag and insert each pair, ignoring  *)
(* the ones already there.  No association is deleted.                     *)
applyTag_unified(st, tagName, tagType, tickers) ==
    IF tickers = {} THEN st
    ELSE insertIgnore(selectOrInsertTag(st, tagName, tagType), tagName, tickers)

(* applyTag, src/api/update-tags.js lines 18-31: nothing on an empty list; *)
(* else upsert the tag (overwriting its family label) and insert each      *)
(* pair, ignoring the ones already there.                                  *)
applyTag_legacy(st, tagName, tagType, tickers) ==
    IF tickers = {} THEN st
    ELSE insertIgnore(upsertTag(st, tagName, tagType), tagName, tickers)

-----------------------------------------------------------------------------
(* Specification SpecApply: the tag appliers called directly, in any       *)
(* order, on a store that starts empty.                                    *)

ApplyNames == {"LargeCap", "HighROE"}
ApplyTypes == {"dynamic", "CapClass"}

NullRow ==
    [last_price |-> NULL, change_percent |-> NULL, market_cap |-> NULL,
     volume |-> NULL, roe_ttm |-> NULL, pe_ttm |-> NULL, week_52_high |-> NULL,
     week_52_low |-> NULL, dividend_yield |-> NULL, sector_zh |-> NoSector,
     change_amount |-> NULL, last_updated |-> NULL]

NoCall == [op |-> "none"]

ApplyInit ==
    /\ stocks = [t \in Tickers |-> NullRow]
    /\ tags = [n \in ApplyNames |-> NoTag]
    /\ stock_tags = {}
    /\ update_stats = <<>>
    /\ call = NoCall
    /\ ret = [twice |-> FALSE, before |-> {}]

\* One call of a tag applier.  ret.twice: the call before it was the same call.
ApplyCall(variant, tagName, tagType, tickers, after) ==
    /\ call' = [op |-> "applyTag", variant |-> variant, tagName |-> tagName,
                tagType |-> tagType, tickers |-> tickers]
    /\ ret' = [twice |-> (call = call'), before |-> TickersOf(Store, tagName)]
    /\ tags' = after.tags
    /\ stock_tags' = after.stock_tags
    /\ UNCHANGED <<stocks, update_stats>>

Call_applyTag_golden ==
    \E n \in ApplyNames, ty \in ApplyTypes, S \in SUBSET Tickers :
        ApplyCall("golden", n, ty, S, applyTag_golden(Store, n, ty, S))

Call_applyTag_full ==
    \E n \in ApplyNames, ty \in ApplyTypes, S \in SUBSET Tickers :
        ApplyCall("full", n, ty, S, applyTag_full(Store, n, ty, S))

Call_applyTag_unified ==
    \E n \in ApplyNames, ty \in ApplyTypes, S \in SUBSET Tickers :
        ApplyCall("unified", n, ty, S, applyTag_unified(Store, n, ty, S))

Call_applyTag_legacy ==
    \E n \in ApplyNames, ty \in ApplyTypes, S \in SUBSET Tickers :
        ApplyCall("legacy", n, ty, S, applyTag_legacy(Store, n, ty, S))

ApplyNext ==
    \/ Call_applyTag_golden
    \/ Call_applyTag_full
    \/ Call_applyTag_unified
    \/ Call_applyTag_legacy

SpecApply == ApplyInit /\ [][ApplyNext]_vars

\* C1: for every tag name T, family F and ticker set S, calling the tag applier
\* twice in a row with (T, F, S) leaves exactly S associated with T (no pair
\* twice, none outside S).  stock_tags is a set of pairs, so no pair is held
\* twice; no applier raises on its second call.
C1_ApplyTwiceLeavesExactlyS ==
    (call.op = "applyTag" /\ ret.twice)
        => TickersOf(Store, call.tagName) = call.tickers

-----------------------------------------------------------------------------
(* Specification SpecRules: the rule engines applied to one stock row      *)
(* whose market_cap, change_percent and last_price range over the values   *)
(* at, next to and between the thresholds.                                 *)

MaxChange == 12

CapSamples ==
    {NULL, Num(0), Num(1), Num(CapSmall), Num(CapSmall + 1), Num(CapMid),
     Num(CapMid + 1), Num(CapLarge), Num(CapLarge + 1), Num(CapMega),
     Num(CapMega + 1)}

ChangeSamples == {NULL} \cup {Num(i) : i \in (0 - MaxChange)..MaxChange}

PriceSamples ==
    {NULL, Num(0), Num(5), Num(10), Num(11), Num(50), Num(100), Num(101),
     Num(200), Num(500), Num(501), Num(1000), Num(1001)}

SampleRows ==
    {[NullRow EXCEPT !.market_cap = mc, !.change_percent = cp, !.last_price = pr] :
        mc \in CapSamples, cp \in ChangeSamples, pr \in PriceSamples}

RulesInit ==
    /\ stocks = [t \in Tickers |-> NullRow]
    /\ tags = [n \in ApplyNames |-> NoTag]
    /\ stock_tags = {}
    /\ update_stats = <<>>
    /\ call \in {[op |-> "input", stockData |-> row] : row \in SampleRows}
    /\ ret = [tags |-> {}]

Calc(engine, stockData, result) ==
    /\ call.op = "input"
    /\ stockData = call.stockData
    /\ call' = [op |-> "calculateTags", engine |-> engine, stockData |-> stockData]
    /\ ret' = [tags |-> result]
    /\ UNCHANGED <<stocks, tags, stock_tags, update_stats>>

Call_calculateDynamicTags_tagsOnly ==
    \E row \in SampleRows : Calc("tagsOnly", row, calculateDynamicTags_tagsOnly(row))

Call_calculateDynamicTags_unifiedB ==
    \E row \in SampleRows : Calc("unifiedB", row, calculateDynamicTags_unifiedB(row))

\* the three family calculators of the unified endpoint on a table of one row
Call_calculateTags_unified ==
    \E row \in SampleRows :
        LET allStocks == [t \in {"AAA"} |-> row] IN
        Calc("unified", row,
             PlanTagsOf(calculateMarketCapTags(allStocks, <<"AAA">>)
                            \o calculatePriceTags(allStocks)
                            \o calculateChangeTags(allStocks), "AAA"))

RulesNext ==
    \/ Call_calculateDynamicTags_tagsOnly
    \/ Call_calculateDynamicTags_unifiedB
    \/ Call_calculateTags_unified

SpecRules == RulesInit /\ [][RulesNext]_vars

\* C9: for every stock with non-null market_cap (0 included) the rule engine
\* (calculateDynamicTags of part_005 and of api/update-all-data.js) assigns exactly
\* one of the five size tags, and a market_cap equal to 200B, 50B, 10B or 2B falls
\* in the lower bucket.
C9_ExactlyOneSizeTag ==
    (call.op = "calculateTags" /\ call.engine \in {"tagsOnly", "unifiedB"}
        /\ call.stockData.market_cap.k = "num")
    => /\ Cardinality(ret.tags \cap SizeTags) = 1
       /\ call.stockData.market_cap.v = CapMega => "LargeCap" \in ret.tags
       /\ call.stockData.market_cap.v = CapLarge => "MidCap" \in ret.tags
       /\ call.stockData.market_cap.v = CapMid => "SmallCap" \in ret.tags
       /\ call.stockData.market_cap.v = CapSmall => "MicroCap" \in ret.tags

\* The momentum buckets of the specification's rule table: boundaries at 10, 5, 2,
\* 0, -2, -5, -10; a value on a boundary other than 0 may belong to either side.
MomentumBuckets(v) ==
    (IF v >= 10 THEN {"LimitUp"} ELSE {})
    \cup (IF v >= 5 /\ v <= 10 THEN {"StrongUp"} ELSE {})
    \cup (IF v >= 2 /\ v <= 5 THEN {"MildUp"} ELSE {})
    \cup (IF v > 0 /\ v <= 2 THEN {"SlightUp"} ELSE {})
    \cup (IF v = 0 THEN {"Flat"} ELSE {})
    \cup (IF v < 0 /\ v >= -2 THEN {"SlightDown"} ELSE {})
    \cup (IF v <= -2 /\ v >= -5 THEN {"MildDown"} ELSE {})
    \cup (IF v <= -5 /\ v >= -10 THEN {"StrongDown"} ELSE {})
    \cup (IF v <= -10 THEN {"LimitDown"} ELSE {})

\* C10: for every stock with non-null change_percent (0 included) the rule engine
\* assigns exactly one of the nine momentum tags, the one of the bucket its
\* change_percent falls in (boundaries at +-10, +-5, +-2 and 0).
C10_ExactlyOneMomentumTag ==
    (call.op = "calculateTags" /\ call.stockData.change_percent.k = "num")
    => /\ Cardinality(ret.tags \cap MomentumTags) = 1
       /\ (ret.tags \cap MomentumTags) \subseteq MomentumBuckets(call.stockData.change_percent.v)

\* The same statement for the engine of the tags-only endpoint alone
TagsOnlyMomentumExactlyOne ==
    (call.op = "calculateTags" /\ call.engine = "tagsOnly"
        /\ call.stockData.change_percent.k = "num")
    => /\ Cardinality(ret.tags \cap MomentumTags) = 1
       /\ (ret.tags \cap MomentumTags) \subseteq MomentumBuckets(call.stockData.change_percent.v)

-----------------------------------------------------------------------------
(* Provider data.  A Polygon bar is NoBar (the ticker is not in the        *)
(* snapshot) or an object with open o, close c and volume v.  A Finnhub    *)
(* answer is FinNull (the fetch failed: null), FinNoMetric (an object      *)
(* without metric) or Fin(m), m the metric object; an omitted key of m     *)
(* reads as UNDEF.  metric.marketCapitalization is in millions of dollars. *)

NoBar == [k |-> "undef"]
Bar(o, c, v) == [k |-> "obj", o |-> Num(o), c |-> Num(c), v |-> Num(v)]

FinNull == [k |-> "null"]
FinNoMetric == [k |-> "obj", hasMetric |-> FALSE]
Fin(m) == [k |-> "obj", hasMetric |-> TRUE, metric |-> m]

Metric(mc, roe, pe, hi, lo, dy) ==
    [marketCapitalization |-> mc, roeTTM |-> roe, peTTM |-> pe,
     w52High |-> hi, w52Low |-> lo, dividendYieldAnnual |-> dy]

\* financialData && financialData.metric
HasMetric(financialData) == financialData.k = "obj" /\ financialData.hasMetric

\* ((c - o) / o) * 100 in IEEE arithmetic: a division by zero gives an infinity or
\* NaN, it does not throw.  Sample bars have whole-percent changes.
JsPercent(c, o) ==
    IF o.v = 0
    THEN (IF c.v > 0 THEN Inf(1) ELSE IF c.v < 0 THEN Inf(-1) ELSE NaN)
    ELSE Num(((c.v - o.v) * 100) \div o.v)

\* c - o
JsMinus(c, o) == Num(c.v - o.v)

\* metric.marketCapitalization * 1000000 dollars, held in K$
TimesMillion(x) == Num(x.v * 1000)

\* a provider number stored as it is, as dollars, held in K$
AsDollars(x) == IF x.k = "num" THEN Num(x.v \div 1000) ELSE x

\* last_updated = NOW()
Now == Num(1)

-----------------------------------------------------------------------------
(* Reconciliation of one stocks row with the provider data of its ticker:  *)
(* the body of the per-company loop.  Each operator gives the row as the   *)
(* UPDATE leaves it.                                                       *)

\* the row after `if (metric.x) updates.col = metric.x` for the six metrics;
\* cap is what is pushed for marketCapitalization
guardedFundamentals(row, metric, cap) ==
    [row EXCEPT
        !.market_cap = IF Truthy(metric.marketCapitalization) THEN cap ELSE @,
        !.roe_ttm = IF Truthy(metric.roeTTM) THEN metric.roeTTM ELSE @,
        !.pe_ttm = IF Truthy(metric.peTTM) THEN metric.peTTM ELSE @,
        !.week_52_high = IF Truthy(metric.w52High) THEN metric.w52High ELSE @,
        !.week_52_low = IF Truthy(metric.w52Low) THEN metric.w52Low ELSE @,
        !.dividend_yield =
            IF Truthy(metric.dividendYieldAnnual) THEN metric.dividendYieldAnnual ELSE @]

\* some metric passed its guard
anyFundamental(metric) ==
    \/ Truthy(metric.marketCapitalization) \/ Truthy(metric.roeTTM)
    \/ Truthy(metric.peTTM) \/ Truthy(metric.w52High) \/ Truthy(metric.w52Low)
    \/ Truthy(metric.dividendYieldAnnual)

\* src/pages/api/update-all-data.js lines 203-264
reconcile_unified(row, marketData, financialData) ==
    LET r1 == IF marketData.k = "obj"
              THEN [row EXCEPT
                       !.last_price = marketData.c,
                       !.change_percent =
                           IF JsGT(marketData.o, 0) THEN JsPercent(marketData.c, marketData.o)
                           ELSE @,
                       !.volume = marketData.v]
              ELSE row
        r2 == IF HasMetric(financialData)
              THEN guardedFundamentals(r1, financialData.metric,
                                       TimesMillion(financialData.metric.marketCapitalization))
              ELSE r1
        any == marketData.k = "obj"
               \/ (HasMetric(financialData) /\ anyFundamental(financialData.metric))
    IN  IF any THEN [r2 EXCEPT !.last_updated = Now] ELSE row

\* src/api/update-tags.js lines 295-346
reconcile_golden(row, marketData, financialData) ==
    LET r1 == IF marketData.k = "obj"
              THEN [row EXCEPT
                       !.last_price = marketData.c,
                       !.change_percent =
                           IF JsGT(marketData.o, 0) THEN JsPercent(marketData.c, marketData.o)
                           ELSE @]
              ELSE row
        r2 == IF HasMetric(financialData)
              THEN guardedFundamentals(r1, financialData.metric,
                                       AsDollars(financialData.metric.marketCapitalization))
              ELSE r1
        any == marketData.k = "obj"
               \/ (HasMetric(financialData) /\ anyFundamental(financialData.metric))
    IN  IF any THEN [r2 EXCEPT !.last_updated = Now] ELSE row

\* src/api/update-data.js lines 60-90: the fundamentals are pushed without a guard
reconcile_dataA(row, marketData, financialData) ==
    LET r1 == IF marketData.k = "obj"
              THEN [row EXCEPT
                       !.last_price = marketData.c,
                       !.volume = marketData.v,
                       !.change_percent =
                           IF JsGT(marketData.o, 0) THEN JsPercent(marketData.c, marketData.o)
                           ELSE @,
                       !.change_amount =
                           IF JsGT(marketData.o, 0) THEN JsMinus(marketData.c, marketData.o)
                           ELSE @]
              ELSE row
        r2 == IF HasMetric(financialData)
              THEN [r1 EXCEPT
                       !.market_cap = PgParam(AsDollars(financialData.metric.marketCapitalization)),
                       !.roe_ttm = PgParam(financialData.metric.roeTTM),
                       !.pe_ttm = PgParam(financialData.metric.peTTM),
                       !.week_52_high = PgParam(financialData.metric.w52High),
                       !.week_52_low = PgParam(financialData.metric.w52Low),
                       !.dividend_yield = PgParam(financialData.metric.dividendYieldAnnual)]
              ELSE r1
    IN  IF marketData.k = "obj" \/ HasMetric(financialData)
        THEN [r2 EXCEPT !.last_updated = Now] ELSE row

\* src/unnamed/part_005 lines 124-148 (step 5b of /api/full-update.js): the second
\* UPDATE of the loop, the four fundamentals without a guard
reconcileFundamentals_full(row, financialData) ==
    IF HasMetric(financialData)
    THEN [row EXCEPT
             !.market_cap = PgParam(AsDollars(financialData.metric.marketCapitalization)),
             !.roe_ttm = PgParam(financialData.metric.roeTTM),
             !.pe_ttm = PgParam(financialData.metric.peTTM),
             !.dividend_yield = PgParam(financialData.metric.dividendYieldAnnual),
             !.last_updated = Now]
    ELSE row

\* src/pages/api/update-data.js lines 143-165: one UPDATE, nothing guarded; the
\* market cap is estimated as close * 1000000
reconcile_dataP(row, polygonData) ==
    IF polygonData.k = "obj"
    THEN [row EXCEPT
             !.last_price = polygonData.c,
             !.change_amount = JsMinus(polygonData.c, polygonData.o),
             !.change_percent = JsPercent(polygonData.c, polygonData.o),
             !.volume = polygonData.v,
             !.market_cap = TimesMillion(polygonData.c),
             !.last_updated = Now]
    ELSE row

-----------------------------------------------------------------------------
(* The tag step of a run: the clear, then the applyTag calls in the order  *)
(* of the handler, as a plan.                                              *)

\* what a number column contributes to an arithmetic comparison (null -> 0)
NumOf(x) == IF x.k = "num" THEN x.v ELSE 0

\* s.last_price >= s.week_52_high * 0.98, for a truthy finite week_52_high
JsGE98(price, high) ==
    price.k \in {"num", "null"} /\ high.k = "num" /\ 100 * NumOf(price) >= 98 * high.v

\* s.last_price <= s.week_52_low * 1.02, for a truthy finite week_52_low
JsLE102(price, low) ==
    price.k \in {"num", "null"} /\ low.k = "num" /\ 100 * NumOf(price) <= 102 * low.v

\* a clearing statement that also dropped the tag rows it emptied
clearDynamicAndRows_unified(st) ==
    [tags |-> [n \in DOMAIN st.tags |-> IF st.tags[n] = "dynamic" THEN NoTag ELSE st.tags[n]],
     stock_tags |-> {p \in st.stock_tags : st.tags[p[2]] # "dynamic"}]

\* DELETE FROM stock_tags WHERE tag_id IN (SELECT id FROM tags WHERE type = 'dynamic')
clearDynamic_unified(st) ==
    [st EXCEPT !.stock_tags = {p \in @ : st.tags[p[2]] # "dynamic"}]

\* DELETE FROM stock_tags WHERE tag_id IN
\*   (SELECT id FROM tags WHERE type NOT IN ('行业分类', '特殊名单类'))
clearDynamic_golden(st) ==
    [st EXCEPT !.stock_tags = {p \in @ : st.tags[p[2]] \in {"SectorClass", "SpecialList"}}]

\* src/pages/api/update-all-data.js lines 277-301
plan_unified(allStocks, order) ==
    LET all == DOMAIN allStocks IN
    calculateMarketCapTags(allStocks, order)
    \o calculatePriceTags(allStocks)
    \o calculateChangeTags(allStocks)
    \o << <<"HighROE", "dynamic",
            {t \in all : Truthy(allStocks[t].roe_ttm) /\ JsGT(allStocks[t].roe_ttm, 20)}>>,
          <<"LowPE", "dynamic",
            {t \in all : Truthy(allStocks[t].pe_ttm) /\ JsGT(allStocks[t].pe_ttm, 0)
                         /\ JsLT(allStocks[t].pe_ttm, 15)}>>,
          <<"HighDividend", "dynamic",
            {t \in all : Truthy(allStocks[t].dividend_yield)
                         /\ JsGT(allStocks[t].dividend_yield, 3)}>>,
          <<"High52w", "dynamic",
            {t \in all : Truthy(allStocks[t].last_price) /\ Truthy(allStocks[t].week_52_high)
                         /\ JsGE98(allStocks[t].last_price, allStocks[t].week_52_high)}>>,
          <<"Low52w", "dynamic",
            {t \in all : Truthy(allStocks[t].last_price) /\ Truthy(allStocks[t].week_52_low)
                         /\ JsLE102(allStocks[t].last_price, allStocks[t].week_52_low)}>> >>

\* src/api/update-tags.js lines 362-430; the thresholds 10000000000 and 2000000000
\* dollars are CapMid and CapSmall
plan_golden(table) ==
    LET all == {t \in DOMAIN table : table[t].last_price.k # "null"}
        allStocks == [t \in all |-> table[t]]
    IN  << <<"HighGrowth", "PricePerf", {t \in all : JsGT(allStocks[t].change_percent, 5)}>>,
           <<"BigDrop", "PricePerf", {t \in all : JsLT(allStocks[t].change_percent, -5)}>>,
           <<"High52w", "PricePerf",
             {t \in all : Truthy(allStocks[t].week_52_high)
                          /\ JsGE98(allStocks[t].last_price, allStocks[t].week_52_high)}>>,
           <<"Low52w", "PricePerf",
             {t \in all : Truthy(allStocks[t].week_52_low)
                          /\ JsLE102(allStocks[t].last_price, allStocks[t].week_52_low)}>>,
           <<"LargeCap", "CapClass",
             {t \in all : Truthy(allStocks[t].market_cap)
                          /\ JsGT(allStocks[t].market_cap, CapMid)}>>,
           <<"MidCap", "CapClass",
             {t \in all : Truthy(allStocks[t].market_cap)
                          /\ JsGT(allStocks[t].market_cap, CapSmall)
                          /\ JsLE(allStocks[t].market_cap, CapMid)}>>,
           <<"SmallCap", "CapClass",
             {t \in all : Truthy(allStocks[t].market_cap)
                          /\ JsLE(allStocks[t].market_cap, CapSmall)}>>,
           <<"HighROE", "FinPerf",
             {t \in all : Truthy(allStocks[t].roe_ttm) /\ JsGT(allStocks[t].roe_ttm, 20)}>>,
           <<"Value", "FinPerf",
             {t \in all : Truthy(allStocks[t].pe_ttm) /\ JsGT(allStocks[t].pe_ttm, 0)
                          /\ JsLT(allStocks[t].pe_ttm, 15)}>>,
           <<"Growth", "FinPerf",
             {t \in all : Truthy(allStocks[t].pe_ttm) /\ JsGT(allStocks[t].pe_ttm, 25)}>>,
           <<"HighPayout", "DividendIncome",
             {t \in all : Truthy(allStocks[t].dividend_yield)
                          /\ JsGT(allStocks[t].dividend_yield, 3)}>>,
           <<"LowPayout", "DividendIncome",
             {t \in all : Truthy(allStocks[t].dividend_yield)
                          /\ JsGT(allStocks[t].dividend_yield, 0)
                          /\ JsLE(allStocks[t].dividend_yield, 3)}>> >>

RECURSIVE applyPlan_unified(_, _)
\* the applyTag calls of a plan, in order, with the applier of the unified endpoint
applyPlan_unified(st, plan) ==
    IF plan = <<>> THEN st
    ELSE applyPlan_unified(
             applyTag_unified(st, Head(plan)[1], Head(plan)[2], Head(plan)[3]), Tail(plan))

RECURSIVE applyPlan_golden(_, _)
\* the same with the applier of src/api/update-tags.js line 231
applyPlan_golden(st, plan) ==
    IF plan = <<>> THEN st
    ELSE applyPlan_golden(
             applyTag_golden(st, Head(plan)[1], Head(plan)[2], Head(plan)[3]), Tail(plan))

\* ticker.value && ticker.value.c && ticker.value.o  (getPolygonSnapshot, line 27)
snapshot_unified(bars) ==
    [t \in DOMAIN bars |->
        IF bars[t].k = "obj" /\ Truthy(bars[t].c) /\ Truthy(bars[t].o) THEN bars[t] ELSE NoBar]

-----------------------------------------------------------------------------
(* Specification SpecRuns: whole runs of the unified endpoint              *)
(* (src/pages/api/update-all-data.js) and of the endpoint of               *)
(* src/api/update-tags.js, line 268, on one database.                      *)

RunNames ==
    {"LargeCap", "MidCap", "SmallCap", "HighPrice", "MidPrice", "LowPrice",
     "StrongUp", "MildUp", "MildDown", "StrongDown", "HighROE", "LowPE",
     "HighDividend", "High52w", "Low52w", "HighGrowth", "BigDrop", "Value",
     "Growth", "HighPayout", "LowPayout"}

RunBars == {NoBar, Bar(100, 110, 5000), Bar(100, 90, 5000)}

RunFins ==
    {FinNull,
     Fin(Metric(Num(20000), Num(25), Num(10), Num(112), Num(50), Num(4))),
     Fin(Metric(Num(3000), Num(5), Num(30), Num(200), Num(89), Num(0)))}

\* the row orders a SELECT without ORDER BY may give
RowOrders(S) ==
    {o \in [1..Cardinality(S) -> S] : \A i, j \in 1..Cardinality(S) : i # j => o[i] # o[j]}

NoRun == [status |-> 0, committed |-> FALSE, plan |-> <<>>]

\* behaviours hold at most MaxRuns requests; call.seq counts them
MaxRuns == 2
RunSeq == IF call.op = "run" THEN call.seq ELSE 0

RunsInit ==
    /\ stocks = [t \in Tickers |-> NullRow]
    /\ tags = [n \in RunNames |-> NoTag]
    /\ stock_tags = {}
    /\ update_stats = <<>>
    /\ call = NoCall
    /\ ret = NoRun

\* a run that ends before, or rolls back, its transaction
RunWithoutEffect(variant, status) ==
    /\ RunSeq < MaxRuns
    /\ call' = [op |-> "run", variant |-> variant, seq |-> RunSeq + 1]
    /\ ret' = [NoRun EXCEPT !.status = status]
    /\ UNCHANGED <<stocks, tags, stock_tags, update_stats>>

RunCommitted(variant, newStocks, st, plan) ==
    /\ RunSeq < MaxRuns
    /\ call' = [op |-> "run", variant |-> variant, seq |-> RunSeq + 1]
    /\ stocks' = newStocks
    /\ tags' = st.tags
    /\ stock_tags' = st.stock_tags
    /\ ret' = [status |-> 200, committed |-> TRUE, plan |-> plan]
    /\ UNCHANGED update_stats

\* handler of src/pages/api/update-all-data.js, lines 156-320
Run_unified ==
    \/ \E authorized \in {FALSE} : RunWithoutEffect("unified", 401)
    \/ \E poolReady \in {FALSE} : RunWithoutEffect("unified", 200)
    \/ \E queryFails \in {TRUE} : RunWithoutEffect("unified", 500)
    \/ \E bars \in [Tickers -> RunBars], fins \in [Tickers -> RunFins],
          order \in RowOrders(Tickers) :
          LET snapshot == snapshot_unified(bars)
              newStocks == [t \in Tickers |-> reconcile_unified(stocks[t], snapshot[t], fins[t])]
              plan == plan_unified(newStocks, order)
          IN  RunCommitted("unified", newStocks,
                           applyPlan_unified(clearDynamic_unified(Store), plan), plan)

\* handler of src/api/update-tags.js, lines 268-441
Run_golden ==
    \/ \E authorized \in {FALSE} : RunWithoutEffect("golden", 401)
    \/ \E queryFails \in {TRUE} : RunWithoutEffect("golden", 500)
    \/ \E bars \in [Tickers -> RunBars], fins \in [Tickers -> RunFins] :
          LET newStocks == [t \in Tickers |-> reconcile_golden(stocks[t], bars[t], fins[t])]
              plan == plan_golden(newStocks)
          IN  RunCommitted("golden", newStocks,
                           applyPlan_golden(clearDynamic_golden(Store), plan), plan)

RunsNext == Run_unified \/ Run_golden

SpecRuns == RunsInit /\ [][RunsNext]_vars

\* C2: after a committed tag run, the tickers of every dynamic tag the run applied
\* are exactly the set the run computed for it, whatever the store held before
\* (tags of the same name created earlier under another family label included).
C2_CommittedRunSetsEqualComputed ==
    (call.op = "run" /\ ret.committed)
    => \A i \in 1..Len(ret.plan) :
           TickersOf(Store, ret.plan[i][1]) = ret.plan[i][3]

-----------------------------------------------------------------------------
(* Authentication.  A string is a sequence of chunks, each chunk a piece   *)
(* of text no other chunk overlaps ("Bearer ", a secret, ...), so two      *)
(* strings are equal exactly when their sequences are.  A header or an     *)
(* environment variable is Absent (undefined) or Str(s).                   *)

Absent == [k |-> "undef"]
Str(s) == [k |-> "str", s |-> s]

RECURSIVE RemoveFirst(_, _)
\* s.replace(chunk, ''): the first occurrence, wherever it is
RemoveFirst(s, chunk) ==
    IF s = <<>> THEN <<>>
    ELSE IF Head(s) = chunk THEN Tail(s)
    ELSE <<Head(s)>> \o RemoveFirst(Tail(s), chunk)

\* `Bearer ${process.env.CRON_SECRET}`: an undefined value prints as "undefined"
BearerTemplate(env) ==
    <<"Bearer ">> \o (IF env.k = "str" THEN env.s ELSE <<"undefined">>)

\* req.headers['authorization'] !== `Bearer ${process.env.CRON_SECRET}` is false
inlineAuth(header, env) == header.k = "str" /\ header.s = BearerTemplate(env)

\* lib/auth.js (src/unnamed/part_008), verifyApiKey
verifyApiKey(header, env) ==
    LET expectedKey == IF env.k = "str" /\ env.s # <<>> THEN env.s ELSE <<"test-secret">>
    IN  IF header.k # "str" \/ header.s = <<>>
        THEN [success |-> FALSE, error |-> "Missing authorization header"]
        ELSE IF RemoveFirst(header.s, "Bearer ") # expectedKey
        THEN [success |-> FALSE, error |-> "Invalid API key"]
        ELSE [success |-> TRUE, error |-> ""]

Secret == <<"s3cret">>

Headers ==
    {Absent, Str(<<>>), Str(<<"Bearer ">> \o Secret), Str(Secret),
     Str(<<"Bearer ", "wrong">>), Str(<<"wrong">>), Str(<<"Basic ">> \o Secret),
     Str(Secret \o <<"Bearer ">>), Str(<<"Bearer ", "Bearer ">> \o Secret),
     Str(<<"Bearer ", "test-secret">>), Str(<<"test-secret">>),
     Str(<<"Bearer ", "undefined">>), Str(<<"Bearer ">>)}

Envs == {Absent, Str(<<>>), Str(Secret)}

(* Specification SpecAuth: the two forms of the check on every sample      *)
(* header and configuration.                                               *)

AuthInit ==
    /\ stocks = [t \in Tickers |-> NullRow]
    /\ tags = [n \in RunNames |-> NoTag]
    /\ stock_tags = {}
    /\ update_stats = <<>>
    /\ call \in {[op |-> "request", authorization |-> h, CRON_SECRET |-> e] :
                    h \in Headers, e \in Envs}
    /\ ret = [success |-> FALSE, error |-> ""]

AuthCheck(form, result) ==
    /\ call.op = "request"
    /\ call' = [op |-> "auth", form |-> form, authorization |-> call.authorization,
                CRON_SECRET |-> call.CRON_SECRET]
    /\ ret' = result
    /\ UNCHANGED <<stocks, tags, stock_tags, update_stats>>

Call_verifyApiKey ==
    AuthCheck("verifyApiKey", verifyApiKey(call.authorization, call.CRON_SECRET))

\* the check at the head of the handlers that compare the header themselves
Call_inlineAuth ==
    AuthCheck("inline",
              IF inlineAuth(call.authorization, call.CRON_SECRET)
              THEN [success |-> TRUE, error |-> ""]
              ELSE [success |-> FALSE, error |-> "Unauthorized"])

AuthNext == Call_verifyApiKey \/ Call_inlineAuth

SpecAuth == AuthInit /\ [][AuthNext]_vars

\* the header the specification asks for: 'Bearer ' followed by the configured,
\* non-empty secret
IsBearerOfSecret(header, env) ==
    env.k = "str" /\ env.s # <<>> /\ header.k = "str" /\ header.s = <<"Bearer ">> \o env.s

\* C6: a request is authenticated only if it presents the pre-shared secret as a
\* bearer token: the check accepts exactly the header 'Bearer <secret>', rejects the
\* secret without the prefix, and rejects every token when no secret is configured.
C6_AcceptsExactlyBearerSecret ==
    call.op = "auth"
    => (ret.success <=> IsBearerOfSecret(call.authorization, call.CRON_SECRET))

-----------------------------------------------------------------------------
(* Table update_stats (src/supabase/migrations/...create_update_stats.sql) *)
(* and the refresh endpoints that write it.  A row holds update_type,      *)
(* the three counts, triggered_by and expired: whether created_at is more  *)
(* than 90 days back.  The column dynamic_tags of stocks, which the        *)
(* refresh endpoints fill with the result of an imported function, is not  *)
(* held.                                                                   *)

StatRow(type, total, success, errors, by) ==
    [update_type |-> type, total_stocks |-> total, success_count |-> success,
     error_count |-> errors, triggered_by |-> by, expired |-> FALSE]

\* CHECK (update_type IN ('standard', 'batch', 'tags-only'))
UpdateTypeCheck(row) == row.update_type \in {"standard", "batch", "tags-only"}

\* INSERT INTO update_stats: the row is appended, or the statement raises
insertStat(stats, row) ==
    IF UpdateTypeCheck(row) THEN [raised |-> FALSE, rows |-> Append(stats, row)]
    ELSE [raised |-> TRUE, rows |-> stats]

\* what fetchStockData(ticker) resolves to
NoQuote == [k |-> "null"]
Quote(price, amount, percent, volume, cap) ==
    [k |-> "obj", price |-> Num(price), change_amount |-> Num(amount),
     change_percent |-> Num(percent), volume |-> Num(volume), market_cap |-> Num(cap)]

Quotes == {NoQuote, Quote(0, 0, 0, 0, 0), Quote(110, 10, 10, 5000, 20000000)}

\* !stockData || !stockData.price
QuoteInvalid(q) == q.k # "obj" \/ ~Truthy(q.price)

\* supabase.from('stocks').update({...}).eq('ticker', ticker)
updateStock(row, q) ==
    [row EXCEPT !.last_price = q.price, !.change_amount = q.change_amount,
                !.change_percent = q.change_percent, !.volume = q.volume,
                !.market_cap = q.market_cap, !.last_updated = Now]

MAX_RETRIES == 3

MaxStatRows == 5

NoResponse == [status |-> 0, statsBefore |-> 0, expiredBefore |-> 0, raised |-> FALSE]

Respond(endpoint, method, header, env, status, raised) ==
    /\ call' = [op |-> "http", endpoint |-> endpoint, method |-> method,
                authorization |-> header, CRON_SECRET |-> env]
    /\ ret' = [status |-> status, statsBefore |-> Len(update_stats),
               expiredBefore |-> Cardinality({i \in 1..Len(update_stats) :
                                                  update_stats[i].expired}),
               raised |-> raised]

GateHeaders == {Absent, Str(<<"Bearer ">> \o Secret), Str(<<"Bearer ", "wrong">>)}
GateEnvs == {Str(Secret)}
Methods == {"GET", "POST"}

\* handler of src/pages/api/update-tags.js.  ok: the tickers whose quote is valid
\* and whose update succeeds.
Refresh_standard ==
    /\ Len(update_stats) < MaxStatRows
    /\ \E method \in Methods, header \in GateHeaders, env \in GateEnvs :
        \/ /\ method # "GET"
           /\ Respond("standard", method, header, env, 405, FALSE)
           /\ UNCHANGED <<stocks, tags, stock_tags, update_stats>>
        \/ /\ method = "GET" /\ ~verifyApiKey(header, env).success
           /\ Respond("standard", method, header, env, 401, FALSE)
           /\ UNCHANGED <<stocks, tags, stock_tags, update_stats>>
        \/ /\ method = "GET" /\ verifyApiKey(header, env).success
           /\ \/ \E stocksError \in {TRUE} :
                   \* line 46: throw; the catch block records a failure row
                   /\ update_stats' =
                          insertStat(update_stats, StatRow("standard", 0, 0, 1, "cron")).rows
                   /\ Respond("standard", method, header, env, 500, TRUE)
                   /\ UNCHANGED <<stocks, tags, stock_tags>>
              \/ \E quote \in [Tickers -> Quotes], updateError \in SUBSET Tickers,
                    statsError \in BOOLEAN, sendThrows \in BOOLEAN :
                   LET ok == {t \in Tickers : ~QuoteInvalid(quote[t]) /\ t \notin updateError}
                       n == Cardinality(Tickers)
                       row == StatRow("standard", n, Cardinality(ok), n - Cardinality(ok), "cron")
                       s1 == IF statsError THEN update_stats
                             ELSE insertStat(update_stats, row).rows
                       \* an exception after line 163 lands in the catch block too
                       s2 == IF sendThrows
                             THEN insertStat(s1, StatRow("standard", 0, 0, 1, "cron")).rows
                             ELSE s1
                   IN  /\ stocks' = [t \in Tickers |->
                                        IF t \in ok THEN updateStock(stocks[t], quote[t])
                                        ELSE stocks[t]]
                       /\ update_stats' = s2
                       /\ Respond("standard", method, header, env,
                                  IF sendThrows THEN 500 ELSE 200, sendThrows)
                       /\ UNCHANGED <<tags, stock_tags>>

\* handler of pages/api/batch-update.js (src/unnamed/part_003, line 248).
\* failures[t]: how many attempts for t fail before one succeeds.
Refresh_batch ==
    /\ Len(update_stats) < MaxStatRows
    /\ \E method \in Methods, header \in GateHeaders, env \in GateEnvs :
        \/ /\ method # "GET"
           /\ Respond("batch", method, header, env, 405, FALSE)
           /\ UNCHANGED <<stocks, tags, stock_tags, update_stats>>
        \/ /\ method = "GET" /\ ~verifyApiKey(header, env).success
           /\ Respond("batch", method, header, env, 401, FALSE)
           /\ UNCHANGED <<stocks, tags, stock_tags, update_stats>>
        \/ /\ method = "GET" /\ verifyApiKey(header, env).success
           /\ \/ \E stocksError \in {TRUE} :
                   \* line 270: throw; the catch block only answers 500
                   /\ Respond("batch", method, header, env, 500, TRUE)
                   /\ UNCHANGED <<stocks, tags, stock_tags, update_stats>>
              \/ \E failures \in [Tickers -> 0..MAX_RETRIES],
                    statsError \in BOOLEAN, sendThrows \in BOOLEAN :
                   LET ok == {t \in Tickers : failures[t] < MAX_RETRIES}
                       n == Cardinality(Tickers)
                       row == StatRow("batch", n, Cardinality(ok), n - Cardinality(ok), "manual")
                   IN  /\ stocks' = [t \in Tickers |->
                                        IF t \in ok
                                        THEN updateStock(stocks[t], Quote(110, 10, 10, 5000, 20000000))
                                        ELSE stocks[t]]
                       /\ update_stats' = IF statsError THEN update_stats
                                          ELSE insertStat(update_stats, row).rows
                       /\ Respond("batch", method, header, env,
                                  IF sendThrows THEN 500 ELSE 200, sendThrows)
                       /\ UNCHANGED <<tags, stock_tags>>

\* SQL function cleanup_old_update_stats(): a function runs as one statement, so an
\* INSERT that raises undoes the DELETE before it
cleanup_old_update_stats ==
    LET kept == SelectSeq(update_stats, LAMBDA r : ~r.expired)
        deleted_count == Len(update_stats) - Len(kept)
        ins == insertStat(kept, StatRow("maintenance", 0, deleted_count, 0, "system"))
    IN  /\ update_stats' = IF ins.raised THEN update_stats ELSE ins.rows
        /\ call' = [op |-> "cleanup"]
        /\ ret' = [status |-> 0, statsBefore |-> Len(update_stats),
                   expiredBefore |-> deleted_count, raised |-> ins.raised]
        /\ UNCHANGED <<stocks, tags, stock_tags>>

\* more than 90 days pass: every row of the table is now older than 90 days
DaysPass ==
    /\ \E i \in 1..Len(update_stats) : ~update_stats[i].expired
    /\ update_stats' = [i \in 1..Len(update_stats) |-> [update_stats[i] EXCEPT !.expired = TRUE]]
    /\ call' = [op |-> "days"]
    /\ ret' = NoResponse
    /\ UNCHANGED <<stocks, tags, stock_tags>>

(* Specification SpecRefresh: the two refresh endpoints and the retention  *)
(* cleanup on the table as the migration leaves it (its three sample rows).*)

RefreshInit ==
    /\ stocks = [t \in Tickers |-> NullRow]
    /\ tags = [n \in RunNames |-> NoTag]
    /\ stock_tags = {}
    /\ update_stats = << StatRow("standard", 500, 495, 5, "cron"),
                         StatRow("batch", 500, 480, 20, "health-check"),
                         StatRow("tags-only", 500, 500, 0, "manual") >>
    /\ call = NoCall
    /\ ret = NoResponse

RefreshNext ==
    \/ Refresh_standard
    \/ Refresh_batch
    \/ cleanup_old_update_stats
    \/ DaysPass

SpecRefresh == RefreshInit /\ [][RefreshNext]_vars

\* C3: an invocation of a refresh endpoint (standard or batch) adds at most one
\* update_stats row whatever its status, and exactly one once it is past
\* authentication (status 200 or 500), a run that throws included.
C3_OneStatRowPerInvocation ==
    (call.op = "http" /\ call.endpoint \in {"standard", "batch"})
    => /\ Len(update_stats) - ret.statsBefore <= 1
       /\ ret.status \in {200, 500} => Len(update_stats) - ret.statsBefore = 1

\* C4: the retention cleanup run on a table with rows older than 90 days deletes
\* exactly those rows and appends exactly one row of type 'maintenance' that
\* records the deleted count; it does not fail on the table's constraints.
C4_CleanupDeletesAndRecords ==
    (call.op = "cleanup" /\ ret.expiredBefore > 0)
    => /\ ~ret.raised
       /\ Len(update_stats) = ret.statsBefore - ret.expiredBefore + 1
       /\ \A i \in 1..Len(update_stats) : ~update_stats[i].expired
       /\ update_stats[Len(update_stats)].update_type = "maintenance"
       /\ update_stats[Len(update_stats)].success_count = ret.expiredBefore

-----------------------------------------------------------------------------
(* The endpoints /api/test-update.js and /api/full-update.js: neither      *)
(* reads the Authorization header, neither opens a transaction.            *)

\* a SQL comparison column > n: NULL compares to unknown, NaN sorts above every number
SqlGT(x, n) ==
    CASE x.k = "num" -> x.v > n
      [] x.k = "inf" -> x.v > 0
      [] x.k = "nan" -> TRUE
      [] OTHER -> FALSE

SqlLT(x, n) ==
    CASE x.k = "num" -> x.v < n
      [] x.k = "inf" -> x.v < 0
      [] OTHER -> FALSE

\* UPDATE stocks SET last_price = $1, change_percent = $2, last_updated = NOW().
\* changePercent is ((c - o) / o * 100).toFixed(2): two decimals, which keeps the
\* whole-percent changes of the sample bars.
updateMarket_full(row, bar) ==
    IF bar.k = "obj"
    THEN [row EXCEPT !.last_price = bar.c, !.change_percent = JsPercent(bar.c, bar.o),
                     !.last_updated = Now]
    ELSE row

\* handler of src/api/test-update.js, lines 20-102
Req_testUpdate ==
    \E header \in GateHeaders, env \in GateEnvs :
        \/ \E polygonFails \in {TRUE} :
              /\ Respond("test-update", "GET", header, env, 500, TRUE)
              /\ UNCHANGED <<stocks, tags, stock_tags, update_stats>>
        \/ \E bars \in [Tickers -> RunBars] :
              /\ stocks' = [t \in Tickers |-> updateMarket_full(stocks[t], bars[t])]
              /\ Respond("test-update", "GET", header, env, 200, FALSE)
              /\ UNCHANGED <<tags, stock_tags, update_stats>>

\* step 6 of /api/full-update.js (src/unnamed/part_005 lines 159-188); the
\* threshold of market_cap > 10000 is in dollars, 10 K$
plan_full(table) ==
    LET all == DOMAIN table IN
    << <<"HighGrowth", "dynamic",
         {t \in all : SqlGT(table[t].change_percent, 5) /\ table[t].last_price.k # "null"}>>,
       <<"Value", "dynamic",
         {t \in all : SqlLT(table[t].pe_ttm, 15) /\ SqlGT(table[t].pe_ttm, 0)}>>,
       <<"HighDividend", "dynamic", {t \in all : SqlGT(table[t].dividend_yield, 3)}>>,
       <<"LargeCap", "dynamic", {t \in all : SqlGT(table[t].market_cap, 10)}>> >>

\* handler of /api/full-update.js, src/unnamed/part_005 lines 63-214
Req_full ==
    \E header \in GateHeaders, env \in GateEnvs :
        \/ \E polygonFails \in {TRUE} :
              \* the clear of step 1 is already done when step 3 throws
              /\ stock_tags' = clearDynamic_golden(Store).stock_tags
              /\ Respond("full-update", "GET", header, env, 500, TRUE)
              /\ UNCHANGED <<stocks, tags, update_stats>>
        \/ \E bars \in [Tickers -> RunBars], fins \in [Tickers -> RunFins] :
              LET newStocks ==
                      [t \in Tickers |->
                          reconcileFundamentals_full(updateMarket_full(stocks[t], bars[t]),
                                                     fins[t])]
                  st == applyPlan_golden(clearDynamic_golden(Store), plan_full(newStocks))
              IN  /\ stocks' = newStocks
                  /\ tags' = st.tags
                  /\ stock_tags' = st.stock_tags
                  /\ Respond("full-update", "GET", header, env, 200, FALSE)
                  /\ UNCHANGED update_stats

(* Specification SpecGate: one request to a write endpoint on the database *)
(* as the migration and the seeding leave it.                              *)

GateInit == RefreshInit

Gate_standard == call = NoCall /\ Refresh_standard
Gate_batch == call = NoCall /\ Refresh_batch
Gate_testUpdate == call = NoCall /\ Req_testUpdate
Gate_full == call = NoCall /\ Req_full

GateNext == Gate_standard \/ Gate_batch \/ Gate_testUpdate \/ Gate_full

SpecGate == GateInit /\ [][GateNext]_vars

\* C5: every endpoint that writes to stocks, tags, stock_tags or update_stats
\* answers a request whose Authorization header is missing or is not
\* 'Bearer <secret>' with 401 and does no processing: the four tables are as
\* they were before the request.
C5_UnauthorizedIsRejectedUntouched ==
    [][(call'.op = "http" /\ ~IsBearerOfSecret(call'.authorization, call'.CRON_SECRET))
          => (ret'.status = 401 /\ UNCHANGED <<stocks, tags, stock_tags, update_stats>>)]_vars

-----------------------------------------------------------------------------
(* Specification SpecReconcile: the reconciliation of one stored row       *)
(* (ticker AAA) with one bar and one fundamentals answer, by each variant  *)
(* of the per-company loop.                                                *)

KnownRow ==
    [NullRow EXCEPT !.last_price = Num(95), !.change_percent = Num(3),
                    !.market_cap = Num(50000000), !.volume = Num(1000),
                    !.roe_ttm = Num(18), !.pe_ttm = Num(12), !.week_52_high = Num(120),
                    !.week_52_low = Num(80), !.dividend_yield = Num(2),
                    !.change_amount = Num(3), !.last_updated = Now]

ReconcileBars ==
    {NoBar, Bar(100, 110, 5000), Bar(100, 90, 5000), Bar(0, 110, 5000), Bar(0, 0, 0)}

\* a metric as the provider may give it: a number, zero, null, or no key at all
MetricValues(n) == {Num(n), Num(0), NULL, UNDEF}

ReconcileFins ==
    {FinNull, FinNoMetric}
    \cup {Fin(Metric(mc, roe, rest[1], rest[2], rest[3], dy)) :
            mc \in MetricValues(20000), roe \in MetricValues(25), dy \in MetricValues(4),
            rest \in {<<Num(10), Num(112), Num(50)>>, <<UNDEF, UNDEF, UNDEF>>}}

ReconcileInit ==
    /\ stocks \in {[t \in Tickers |-> row] : row \in {NullRow, KnownRow}}
    /\ tags = [n \in RunNames |-> NoTag]
    /\ stock_tags = {}
    /\ update_stats = <<>>
    /\ call \in {[op |-> "input", bar |-> b, fin |-> f] :
                    b \in ReconcileBars, f \in ReconcileFins}
    /\ ret = [raised |-> FALSE]

NonFinite(x) == x.k \in {"inf", "nan"}

\* The UPDATE of AAA.  An infinite change_percent is a value the column takes or
\* refuses, as its type and the server version have it: both outcomes are kept.
Reconciled(variant, newRow) ==
    /\ call.op = "input"
    /\ call' = [op |-> "reconcile", variant |-> variant, bar |-> call.bar,
                fin |-> call.fin, before |-> stocks["AAA"]]
    /\ \E columnTakesInfinity \in BOOLEAN :
          IF newRow.change_percent.k = "inf" /\ ~columnTakesInfinity
          THEN /\ ret' = [raised |-> TRUE]
               /\ UNCHANGED stocks
          ELSE /\ ret' = [raised |-> FALSE]
               /\ stocks' = [stocks EXCEPT !["AAA"] = newRow]
    /\ UNCHANGED <<tags, stock_tags, update_stats>>

\* getPolygonSnapshot (lines 16-44) and the loop body of
\* src/pages/api/update-all-data.js
Reconcile_unified ==
    Reconciled("unified",
               reconcile_unified(stocks["AAA"],
                                 snapshot_unified([t \in {"AAA"} |-> call.bar])["AAA"],
                                 call.fin))

Reconcile_golden ==
    Reconciled("golden", reconcile_golden(stocks["AAA"], call.bar, call.fin))

Reconcile_dataA ==
    Reconciled("dataA", reconcile_dataA(stocks["AAA"], call.bar, call.fin))

Reconcile_dataP ==
    Reconciled("dataP", reconcile_dataP(stocks["AAA"], call.bar))

\* steps 5a and 5b of /api/full-update.js
Reconcile_full ==
    Reconciled("full",
               reconcileFundamentals_full(updateMarket_full(stocks["AAA"], call.bar),
                                          call.fin))

ReconcileNext ==
    \/ Reconcile_unified
    \/ Reconcile_golden
    \/ Reconcile_dataA
    \/ Reconcile_dataP
    \/ Reconcile_full

SpecReconcile == ReconcileInit /\ [][ReconcileNext]_vars

\* C7: for a ticker whose snapshot bar has open = 0, reconciliation writes no
\* change-percent value, raises no exception, and still sets the stock's price
\* to the bar's close.
C7_ZeroOpenBar ==
    (call.op = "reconcile" /\ call.bar.k = "obj" /\ call.bar.o = Num(0))
    => /\ stocks["AAA"].change_percent = call.before.change_percent
       /\ ~ret.raised
       /\ stocks["AAA"].last_price = call.bar.c

\* the metric is omitted, null or zero
MetricMissing(x) == x.k \in {"undef", "null"} \/ x = Num(0)

\* C8: when a fundamentals answer omits a metric, or gives it as null or zero, the
\* stored value of that field is the same after reconciliation as before.
C8_MissingMetricKeepsStoredValue ==
    (call.op = "reconcile" /\ call.variant \in {"unified", "golden", "dataA", "full"}
        /\ HasMetric(call.fin))
    => LET m == call.fin.metric
           now == stocks["AAA"]
           was == call.before
       IN  /\ MetricMissing(m.marketCapitalization) => now.market_cap = was.market_cap
           /\ MetricMissing(m.roeTTM) => now.roe_ttm = was.roe_ttm
           /\ MetricMissing(m.peTTM) => now.pe_ttm = was.pe_ttm
           /\ MetricMissing(m.w52High) => now.week_52_high = was.week_52_high
           /\ MetricMissing(m.w52Low) => now.week_52_low = was.week_52_low
           /\ MetricMissing(m.dividendYieldAnnual) => now.dividend_yield = was.dividend_yield

-----------------------------------------------------------------------------
(* Price rule of the specification's rule table: first match of > 1000,   *)
(* > 100, > 10, otherwise the lowest bucket.                              *)
PriceBucket(v) ==
    IF v > 1000 THEN "HighPrice"
    ELSE IF v > 100 THEN "MidPrice"
    ELSE IF v > 10 THEN "LowPrice"
    ELSE "PennyPrice"

\* C11: every stock with a non-null price (0 included) gets exactly one of the
\* four price tags from the rule engine (calculateDynamicTags of part_005 and of
\* api/update-all-data.js): HighPrice above 1000, else MidPrice above 100, else
\* LowPrice above 10, else PennyPrice.
C11_ExactlyOnePriceTag ==
    (call.op = "calculateTags" /\ call.engine \in {"tagsOnly", "unifiedB"}
        /\ call.stockData.last_price.k = "num")
    => ret.tags \cap PriceTags = {PriceBucket(call.stockData.last_price.v)}

\* The price block of part_005 taken alone, on prices other than 0.
TagsOnlyPriceExactlyOne ==
    (call.op = "calculateTags" /\ call.engine = "tagsOnly"
        /\ call.stockData.last_price.k = "num" /\ call.stockData.last_price.v # 0)
    => ret.tags \cap PriceTags = {PriceBucket(call.stockData.last_price.v)}

-----------------------------------------------------------------------------
(* Specification SpecValuation: the valuation rules of the three tag       *)
(* endpoints applied once to a table of stocks.  Further ASCII names:      *)
(* HighYield = 高股息率 (legacy endpoint), MarketPerf = 📈 股市表现类,          *)
(* FinPerfLegacy = 💰 财务表现类.                                            *)

\* .slice(0, 45), .slice(0, 67), .slice(0, 50) of src/api/update-tags.js lines 85-92
TopHighYield == 45
TopLowPe == 67
TopHighRoe == 50

\* src/api/update-tags.js lines 85-92: filter, sort, keep the first N.  allStockData
\* holds the values fetched from the provider (roe, pe, dividendYield), here in the
\* fields roe_ttm, pe_ttm, dividend_yield; order is the order of SELECT ticker FROM stocks.
valuationPlan_legacy(allStockData, order) ==
    LET all == DOMAIN allStockData
        highYield == {t \in all : JsGT(allStockData[t].dividend_yield, 3)}
        lowPe == {t \in all : JsGT(allStockData[t].pe_ttm, 0) /\ JsLT(allStockData[t].pe_ttm, 15)}
        highRoe == {t \in all : JsGT(allStockData[t].roe_ttm, 15)}
    IN  << <<"HighYield", "MarketPerf",
             Slice(SortDesc(SelectSeq2(order, highYield),
                            [t \in highYield |-> allStockData[t].dividend_yield.v]),
                   0, TopHighYield)>>,
           <<"LowPE", "MarketPerf",
             Slice(SortDesc(SelectSeq2(order, lowPe),
                            [t \in lowPe |-> 0 - allStockData[t].pe_ttm.v]),
                   0, TopLowPe)>>,
           <<"HighROE", "FinPerfLegacy",
             Slice(SortDesc(SelectSeq2(order, highRoe),
                            [t \in highRoe |-> allStockData[t].roe_ttm.v]),
                   0, TopHighRoe)>> >>

RoeSamples == {NULL, Num(18), Num(20), Num(21)}
PeSamples == {NULL, Num(0), Num(10), Num(15), Num(25), Num(30)}
YieldSamples == {NULL, Num(3), Num(4)}

ValuationRows ==
    {[NullRow EXCEPT !.last_price = p, !.roe_ttm = r, !.pe_ttm = e, !.dividend_yield = d] :
        p \in {NULL, Num(50)}, r \in RoeSamples, e \in PeSamples, d \in YieldSamples}

ValuationInit ==
    /\ stocks \in [Tickers -> ValuationRows]
    /\ tags = [n \in RunNames |-> NoTag]
    /\ stock_tags = {}
    /\ update_stats = <<>>
    /\ call = [op |-> "input", allStockData |-> stocks]
    /\ ret = [tags |-> [t \in Tickers |-> {}]]

\* the tickers each rule of a plan selects, as the tags each ticker is planned to get
Valuation(variant, plan) ==
    /\ call.op = "input"
    /\ call' = [op |-> "valuation", variant |-> variant, allStocks |-> call.allStockData]
    /\ ret' = [tags |-> [t \in Tickers |-> PlanTagsOf(plan, t)]]
    /\ UNCHANGED <<stocks, tags, stock_tags, update_stats>>

Valuation_golden == Valuation("golden", plan_golden(stocks))

Valuation_unified ==
    \E order \in RowOrders(Tickers) : Valuation("unified", plan_unified(stocks, order))

Valuation_legacy ==
    /\ call.op = "input"
    /\ \E order \in RowOrders(Tickers) :
           Valuation("legacy", valuationPlan_legacy(call.allStockData, order))

ValuationNext ==
    \/ Valuation_golden
    \/ Valuation_unified
    \/ Valuation_legacy

SpecValuation == ValuationInit /\ [][ValuationNext]_vars

\* the names under which the endpoints file the four valuation rules
RoeNames == {"HighROE"}
LowPeNames == {"LowPE", "Value"}
GrowthNames == {"Growth"}
DividendNames == {"HighDividend", "HighPayout", "HighYield"}

\* C12: the valuation rules are independent booleans decided from the stock's own
\* value: a stock is planned for HighROE iff roe > 20, for LowPE/Value iff
\* 0 < pe < 15, for Growth iff pe > 25, for the high-dividend tag iff
\* dividend_yield > 3, and no qualifying stock is left out.
C12_ValuationRulesIndependent ==
    call.op = "valuation"
    => \A t \in Tickers :
          LET row == call.allStocks[t]
              got == ret.tags[t]
          IN  /\ (got \cap RoeNames # {}) <=> JsGT(row.roe_ttm, 20)
              /\ (got \cap LowPeNames # {}) <=> (JsGT(row.pe_ttm, 0) /\ JsLT(row.pe_ttm, 15))
              /\ (got \cap GrowthNames # {}) <=> JsGT(row.pe_ttm, 25)
              /\ (got \cap DividendNames # {}) <=> JsGT(row.dividend_yield, 3)

-----------------------------------------------------------------------------
(* The health report: handler of src/pages/api/data-health.js.  The        *)
(* endpoint reads table stocks under the column names of the refresh       *)
(* endpoints' schema: price is the field last_price here, and dynamic_tags *)
(* is the JSON column those endpoints fill.  Rows that carry it are made   *)
(* with WithDynamicTags.  A rate is held exactly, as the fraction          *)
(* num / den of a percentage; den = 0 stands for NaN.  For tables of up to *)
(* five stocks the doubles of the code round to the same integers.         *)

JsonNull == [k |-> "null", has |-> {}]
JsonArray(S) == [k |-> "array", has |-> S]

WithDynamicTags(row, json) == [dynamic_tags |-> json] @@ row

\* .select('ticker', { count: 'exact', head: true }) and `data || 0`: the number of
\* rows the filter keeps (kept: their tickers)
countHead(kept) == Cardinality(kept)

\* .or('price.is.null,change_amount.is.null,change_percent.is.null')
isIncomplete(row) ==
    row.last_price.k = "null" \/ row.change_amount.k = "null" \/ row.change_percent.k = "null"

\* the clock counts periods longer than 24 hours: yesterday lies between now - 1 and now
\* .gte('last_updated', yesterday.toISOString())
isFreshAt(now, row) == row.last_updated.k = "num" /\ row.last_updated.v >= now

\* .not('dynamic_tags', 'is', null).neq('dynamic_tags', '[]')
isTagged(row) == row.dynamic_tags.k # "null" /\ row.dynamic_tags # JsonArray({})

\* .or('price.lte.0,change_percent.gt.50,change_percent.lt.-50')
isAnomalous(row) ==
    \/ (row.last_price.k = "num" /\ row.last_price.v <= 0)
    \/ SqlGT(row.change_percent, 50)
    \/ SqlLT(row.change_percent, -50)

\* totalCount > 0 ? (count / totalCount) * 100 : 0, without the guard
ratePercentUnguarded(count, totalCount) == [num |-> 100 * count, den |-> totalCount]

\* totalCount > 0 ? (count / totalCount) * 100 : 0
ratePercent(count, totalCount) ==
    IF totalCount > 0 THEN [num |-> 100 * count, den |-> totalCount]
    ELSE [num |-> 0, den |-> 1]

\* rate < n, rate >= n
RateLT(rate, n) == rate.den # 0 /\ rate.num < n * rate.den
RateGE(rate, n) == rate.den # 0 /\ rate.num >= n * rate.den

\* Math.round(x) of x = n / d with n >= 0, d > 0: floor(x + 1/2)
MathRound(n, d) == (2 * n + d) \div (2 * d)

\* Math.round(rate * 100) / 100, in hundredths; rate.toFixed(1), in tenths
RoundedRate(rate, scale) ==
    IF rate.den = 0 THEN NaN ELSE Num(MathRound(scale * rate.num, rate.den))

\* lines 97-109; the four rates are fractions of the same totalCount
overallHealthScore(completenessRate, freshnessRate, dataQualityRate, tagCoverageRate) ==
    IF completenessRate.den = 0 THEN NaN
    ELSE Num(MathRound(30 * completenessRate.num + 30 * freshnessRate.num
                           + 25 * dataQualityRate.num + 15 * tagCoverageRate.num,
                       100 * completenessRate.den))

\* lines 115-126 with the bound of 'excellent' moved
healthStatusShifted(score) ==
    IF JsGE(score, 91) THEN "excellent"
    ELSE IF JsGE(score, 75) THEN "good"
    ELSE IF JsGE(score, 60) THEN "fair"
    ELSE "poor"

\* lines 115-126
healthStatus(score) ==
    IF JsGE(score, 90) THEN "excellent"
    ELSE IF JsGE(score, 75) THEN "good"
    ELSE IF JsGE(score, 60) THEN "fair"
    ELSE "poor"

Rec(msg, n) == [msg |-> msg, n |-> n]

\* lines 113-140: the recommendations, in the order they are pushed
recommendations(status, completenessRate, freshnessRate, tagCoverageRate, anomalousCount) ==
    (IF status = "fair" THEN <<Rec("consider-batch-update", Num(0))>>
     ELSE IF status = "poor"
          THEN <<Rec("immediate-batch-update", Num(0)), Rec("check-connectivity", Num(0))>>
          ELSE <<>>)
    \o (IF RateLT(completenessRate, 95)
        THEN <<Rec("completeness", RoundedRate(completenessRate, 10))>> ELSE <<>>)
    \o (IF RateLT(freshnessRate, 80)
        THEN <<Rec("freshness", RoundedRate(freshnessRate, 10))>> ELSE <<>>)
    \o (IF RateLT(tagCoverageRate, 90)
        THEN <<Rec("tag-coverage", RoundedRate(tagCoverageRate, 10))>> ELSE <<>>)
    \o (IF anomalousCount > 0 THEN <<Rec("anomalous", Num(anomalousCount))>> ELSE <<>>)

\* rate >= good ? 'good' : rate >= fair ? 'fair' : 'poor'
metricStatus(rate, good, fair) ==
    IF RateGE(rate, good) THEN "good" ELSE IF RateGE(rate, fair) THEN "fair" ELSE "poor"

metric(rate, good, fair, count, rest) ==
    [rate |-> RoundedRate(rate, 100), count |-> count, rest |-> rest,
     status |-> metricStatus(rate, good, fair)]

\* .order('created_at', { ascending: false }).limit(5)
recentUpdates(stats) ==
    [i \in 1..(IF Len(stats) < 5 THEN Len(stats) ELSE 5) |-> stats[Len(stats) + 1 - i]]

\* lines 18-187: the report the handler sends with status 200
healthReport(table, stats, now, updatesError) ==
    LET totalCount == countHead(DOMAIN table)
        incompleteCount == countHead({t \in DOMAIN table : isIncomplete(table[t])})
        completenessRate == ratePercent(totalCount - incompleteCount, totalCount)
        freshCount == countHead({t \in DOMAIN table : isFreshAt(now, table[t])})
        freshnessRate == ratePercent(freshCount, totalCount)
        taggedCount == countHead({t \in DOMAIN table : isTagged(table[t])})
        tagCoverageRate == ratePercent(taggedCount, totalCount)
        anomalousCount == countHead({t \in DOMAIN table : isAnomalous(table[t])})
        dataQualityRate == ratePercent(totalCount - anomalousCount, totalCount)
        score == overallHealthScore(completenessRate, freshnessRate,
                                    dataQualityRate, tagCoverageRate)
        status == healthStatus(score)
    IN  [status |-> 200,
         summary |-> [overall_health_score |-> score,
                      health_status |-> status,
                      total_stocks |-> totalCount,
                      recommendations |->
                          recommendations(status, completenessRate, freshnessRate,
                                          tagCoverageRate, anomalousCount)],
         metrics |-> [data_completeness |->
                          metric(completenessRate, 95, 85,
                                 totalCount - incompleteCount, incompleteCount),
                      data_freshness |->
                          metric(freshnessRate, 80, 60, freshCount, totalCount - freshCount),
                      data_quality |->
                          metric(dataQualityRate, 95, 85,
                                 totalCount - anomalousCount, anomalousCount),
                      tag_coverage |->
                          metric(tagCoverageRate, 90, 75,
                                 taggedCount, totalCount - taggedCount)],
         recent_updates |-> IF updatesError THEN <<>> ELSE recentUpdates(stats)]


(* Specification SpecHealth: GET /api/data-health called any number of     *)
(* times on a store of up to MaxHealthStocks stocks, at clock readings up  *)
(* to MaxClock.  Which ticker holds which row does not matter to a count,  *)
(* so the tables are taken up to that order.                               *)

MaxHealthStocks == 5
MaxClock == 2

HealthTickerNames == <<"AAA", "BBB", "CCC", "DDD", "EEE", "FFF", "GGG">>

\* rows of table stocks, each with whether stock_tags associates a tag with it
HealthSamples ==
    << [row |-> WithDynamicTags(NullRow, JsonNull), assoc |-> FALSE],
       [row |-> WithDynamicTags([NullRow EXCEPT !.last_price = Num(50),
                    !.change_amount = Num(1), !.change_percent = Num(3),
                    !.last_updated = Now], JsonArray({"LargeCap"})), assoc |-> TRUE],
       [row |-> WithDynamicTags([NullRow EXCEPT !.last_price = Num(50),
                    !.change_amount = Num(30), !.change_percent = Num(60),
                    !.last_updated = Now], JsonArray({"LargeCap"})), assoc |-> TRUE],
       [row |-> WithDynamicTags([NullRow EXCEPT !.last_price = Num(50),
                    !.change_percent = Num(-60), !.last_updated = Num(0)], JsonNull),
        assoc |-> FALSE],
       [row |-> WithDynamicTags([NullRow EXCEPT !.last_price = Num(50),
                    !.change_amount = Num(1), !.change_percent = Num(3),
                    !.last_updated = Num(0)], JsonArray({})), assoc |-> FALSE],
       [row |-> WithDynamicTags([NullRow EXCEPT !.last_price = Num(50),
                    !.change_amount = Num(1), !.change_percent = Num(3),
                    !.last_updated = Now], JsonNull), assoc |-> TRUE] >>

HealthStores ==
    UNION {{pick \in [1..n -> 1..Len(HealthSamples)] :
               \A i \in 1..n : \A j \in 1..n : i <= j => pick[i] <= pick[j]} :
           n \in 0..MaxHealthStocks}

HealthInit ==
    \E pick \in HealthStores :
        LET names == {HealthTickerNames[i] : i \in DOMAIN pick}
            index == [t \in names |-> CHOOSE i \in DOMAIN pick : HealthTickerNames[i] = t]
            linked == {t \in names : HealthSamples[pick[index[t]]].assoc}
        IN  /\ stocks = [t \in names |-> HealthSamples[pick[index[t]]].row]
            /\ stock_tags = {<<t, "LargeCap">> : t \in linked}
            /\ tags = [n \in RunNames |->
                          IF n = "LargeCap" /\ linked # {} THEN "dynamic" ELSE NoTag]
            /\ update_stats = << StatRow("standard", 500, 495, 5, "cron"),
                                 StatRow("batch", 500, 480, 20, "health-check"),
                                 StatRow("tags-only", 500, 500, 0, "manual") >>
            /\ call = [op |-> "none", method |-> "GET", now |-> 1]
            /\ ret = [status |-> 0, before |-> 0]

\* One request.  now: the clock the handler reads, never behind the request before;
\* failed: one of the five counting queries answers with an error.  ret.before is
\* the status of the response before this one.
HealthRequest(statsAfter) ==
    \E method \in Methods, now \in call.now..MaxClock,
       failed \in BOOLEAN, updatesError \in BOOLEAN :
        /\ call' = [op |-> "health", method |-> method, now |-> now]
        /\ ret' = [before |-> ret.status]
                  @@ (IF method # "GET" THEN [status |-> 405]
                      ELSE IF failed THEN [status |-> 500]
                      ELSE healthReport(stocks, update_stats, now, updatesError))
        /\ update_stats' = statsAfter
        /\ UNCHANGED <<stocks, tags, stock_tags>>

\* a handler that would log its run
dataHealthLogging ==
    HealthRequest(Append(update_stats, StatRow("standard", 0, 0, 0, "health-check")))

\* handler of src/pages/api/data-health.js: it only selects
dataHealth == HealthRequest(update_stats)

HealthNext == dataHealth

SpecHealth == HealthInit /\ [][HealthNext]_vars

Reported == call.op = "health" /\ ret.status = 200

\* C13: for every combination of stored counts, total_stocks = 0 included, the
\* health score is an integer from 0 to 100 and no rate is the result of a division
\* by zero; with total_stocks = 0 the four rates are 0, the score is 0 and the
\* status is 'poor'.
C13_ScoreInRangeAndZeroTotal ==
    Reported =>
        /\ ret.summary.overall_health_score.k = "num"
        /\ ret.summary.overall_health_score.v \in 0..100
        /\ \A m \in DOMAIN ret.metrics : ret.metrics[m].rate.k = "num"
        /\ ret.summary.total_stocks = 0 =>
              /\ \A m \in DOMAIN ret.metrics : ret.metrics[m].rate = Num(0)
              /\ ret.summary.overall_health_score = Num(0)
              /\ ret.summary.health_status = "poor"

\* a report on an empty table stocks
C13_Witness ==
    Reported /\ stocks = << >> /\ ret.summary.total_stocks = 0
    /\ ret.summary.health_status = "poor"

RecommendationNames == {ret.summary.recommendations[i].msg :
                           i \in DOMAIN ret.summary.recommendations}

\* C14: the status follows from the score alone: 90 and above 'excellent', 75 to 89
\* 'good', 60 to 74 'fair' with the recommendation of a batch update, below 60
\* 'poor' with the recommendations of a batch update and of a connectivity check.
C14_StatusFromScoreAlone ==
    Reported =>
        LET s == ret.summary.overall_health_score.v
            status == ret.summary.health_status
        IN  /\ status = "excellent" <=> s >= 90
            /\ status = "good" <=> (s >= 75 /\ s <= 89)
            /\ status = "fair" <=> (s >= 60 /\ s <= 74)
            /\ status = "poor" <=> s < 60
            /\ "consider-batch-update" \in RecommendationNames <=> status = "fair"
            /\ "immediate-batch-update" \in RecommendationNames <=> status = "poor"
            /\ "check-connectivity" \in RecommendationNames <=> status = "poor"

\* a report whose score is the highest of 'fair'
C14_Witness ==
    Reported /\ ret.summary.overall_health_score = Num(74)
    /\ ret.summary.health_status = "fair"
    /\ "consider-batch-update" \in RecommendationNames

\* the stocks table stocks holds as complete, fresh, not anomalous and tagged: a
\* complete stock has price and both change fields, a fresh one was updated within
\* the last 24 hours, an anomalous one has price <= 0 or |change_percent| > 50, a
\* tagged one has at least one association in stock_tags
CompleteStocks == {t \in DOMAIN stocks : ~isIncomplete(stocks[t])}
FreshStocks == {t \in DOMAIN stocks : isFreshAt(call.now, stocks[t])}
NormalStocks == {t \in DOMAIN stocks : ~isAnomalous(stocks[t])}
TaggedStocks == {t \in DOMAIN stocks : \E p \in stock_tags : p[1] = t}

\* C15: the health score is round(0.30 * completeness + 0.30 * freshness
\* + 0.25 * quality + 0.15 * tag_coverage), each rate the percentage of all stocks
\* that are complete, fresh within 24 hours, not anomalous, tagged.
C15_ScoreIsWeightedSumOfRates ==
    Reported =>
        LET total == Cardinality(DOMAIN stocks)
            weighted == 30 * Cardinality(CompleteStocks) + 30 * Cardinality(FreshStocks)
                        + 25 * Cardinality(NormalStocks) + 15 * Cardinality(TaggedStocks)
        IN  ret.summary.overall_health_score =
                Num(IF total = 0 THEN 0 ELSE MathRound(weighted, total))

\* the same with a stock counted as tagged when its column dynamic_tags holds a
\* non-empty array
ScoreIsWeightedSumOfColumnRates ==
    Reported =>
        LET total == Cardinality(DOMAIN stocks)
            tagged == {t \in DOMAIN stocks : isTagged(stocks[t])}
            weighted == 30 * Cardinality(CompleteStocks) + 30 * Cardinality(FreshStocks)
                        + 25 * Cardinality(NormalStocks) + 15 * Cardinality(tagged)
        IN  ret.summary.overall_health_score =
                Num(IF total = 0 THEN 0 ELSE MathRound(weighted, total))

SameReport(a, b) == a.summary = b.summary /\ a.metrics = b.metrics

-----------------------------------------------------------------------------
(* Specification SpecSnapshot: one run of an endpoint that starts from the *)
(* market snapshot, with the provider delivering a snapshot or none:       *)
(* src/api/update-data.js (dataA), src/pages/api/update-all-data.js        *)
(* (unified) and src/api/update-all-data.js (unifiedB).                    *)

\* for (let i = 0; i < 7; i++): the dates getPolygonSnapshot tries
PolygonAttempts == 7

\* every name the engines and plans of the endpoints can file
AllTagNames ==
    RunNames \cup SizeTags \cup MomentumTags \cup PriceTags
    \cup {"HugeVolume", "HighVolume", "MediumVolume", "LowVolume", "TechStock",
          "PharmaStock", "FinanceStock", "EnergyStock", "ConsumerStock", "SectorName"}

\* updateStockData, src/api/update-all-data.js lines 59-103: the UPDATE of one stock
\* of the snapshot; getFinnhubMetrics returns data.metric or null, and an undefined
\* parameter is stored as NULL
reconcile_unifiedB(row, stock, finnhubData) ==
    IF stock.k = "obj"
    THEN [row EXCEPT !.last_price = stock.c,
                     !.change_percent = JsPercent(stock.c, stock.o),
                     !.market_cap = IF HasMetric(finnhubData)
                                    THEN PgParam(AsDollars(finnhubData.metric.marketCapitalization))
                                    ELSE NULL,
                     !.last_updated = Now]
    ELSE row

\* applyTagToStock, src/api/update-all-data.js lines 190-220, for each tag of a stock
applyTagsToStock_unifiedB(st, ticker, names) ==
    [tags |-> [n \in DOMAIN st.tags |->
                  IF n \in names /\ st.tags[n] # "dynamic" THEN "dynamic" ELSE st.tags[n]],
     stock_tags |-> st.stock_tags \cup {<<ticker, n>> : n \in names}]

RECURSIVE updateDynamicTags_unifiedB(_, _, _)
\* updateDynamicTags, lines 105-147: per selected stock, delete its dynamic
\* associations, then apply the computed tags
updateDynamicTags_unifiedB(st, table, todo) ==
    IF todo = {} THEN st
    ELSE LET t == CHOOSE x \in todo : TRUE
             cleared == [st EXCEPT !.stock_tags =
                            {p \in @ : ~(p[1] = t /\ st.tags[p[2]] = "dynamic")}]
         IN  updateDynamicTags_unifiedB(
                 applyTagsToStock_unifiedB(cleared, t, calculateDynamicTags_unifiedB(table[t])),
                 table, todo \ {t})

SnapshotRows == {NullRow, KnownRow}

SnapshotInit ==
    /\ stocks \in [Tickers -> SnapshotRows]
    /\ \E linked \in SUBSET Tickers :
          /\ stock_tags = {<<t, "StrongDown">> : t \in linked}
          /\ tags = [n \in AllTagNames |->
                        IF n = "StrongDown" /\ linked # {} THEN "dynamic" ELSE NoTag]
    /\ update_stats = <<>>
    /\ call = NoCall
    /\ ret = NoRun

\* snapshot: "none" when the provider gave no data on any attempted date
SnapshotRun(variant, snapshot, status, newStocks, st) ==
    /\ call = NoCall
    /\ call' = [op |-> "run", variant |-> variant, snapshot |-> snapshot]
    /\ ret' = [NoRun EXCEPT !.status = status, !.committed = (status = 200)]
    /\ stocks' = newStocks
    /\ tags' = st.tags
    /\ stock_tags' = st.stock_tags
    /\ UNCHANGED update_stats

\* handler of src/api/update-data.js, lines 41-103.  firstDate: the first of the
\* attempted dates with results, 0 when there is none; the tag step of this file
\* is a comment
Snapshot_dataA ==
    \E firstDate \in 0..PolygonAttempts, bars \in [Tickers -> RunBars],
       fins \in [Tickers -> RunFins] :
        IF firstDate = 0
        THEN \* getPolygonSnapshot throws; catch: ROLLBACK, 500
             SnapshotRun("dataA", "none", 500, stocks, Store)
        ELSE SnapshotRun("dataA", "found", 200,
                         [t \in Tickers |-> reconcile_dataA(stocks[t], bars[t], fins[t])],
                         Store)

\* handler of src/pages/api/update-all-data.js, lines 156-320.  fetched: the one
\* request of getPolygonSnapshot delivered results; otherwise it returns an empty Map
Snapshot_unified ==
    \E fetched \in BOOLEAN, bars \in [Tickers -> RunBars], fins \in [Tickers -> RunFins],
       order \in RowOrders(Tickers) :
        LET snapshot == IF fetched THEN snapshot_unified(bars) ELSE [t \in Tickers |-> NoBar]
            newStocks == [t \in Tickers |-> reconcile_unified(stocks[t], snapshot[t], fins[t])]
            plan == plan_unified(newStocks, order)
        IN  SnapshotRun("unified",
                        IF fetched THEN "found" ELSE "none", 200, newStocks, applyPlan_unified(clearDynamic_unified(Store), plan))

\* handler of src/api/update-all-data.js, lines 2-56, with updateStockData and
\* updateDynamicTags.  firstDate = 0: getPolygonSnapshot returns null and the stock
\* updates are skipped
Snapshot_unifiedB ==
    \E firstDate \in 0..PolygonAttempts, bars \in [Tickers -> RunBars],
       fins \in [Tickers -> RunFins] :
        LET newStocks == IF firstDate = 0 THEN stocks
                         ELSE [t \in Tickers |->
                                  reconcile_unifiedB(stocks[t], bars[t], fins[t])]
            selected == {t \in Tickers : newStocks[t].last_price.k # "null"}
        IN  SnapshotRun("unifiedB", IF firstDate = 0 THEN "none" ELSE "found", 200,
                        newStocks, updateDynamicTags_unifiedB(Store, newStocks, selected))

SnapshotNext ==
    \/ Snapshot_dataA
    \/ Snapshot_unified
    \/ Snapshot_unifiedB

SpecSnapshot == SnapshotInit /\ [][SnapshotNext]_vars

\* C17: when the snapshot provider yields no data on any attempted date the run
\* fails as a whole: the endpoint answers 500 and neither a stock update nor a tag
\* change of the run is committed.
C17_NoSnapshotFailsRun ==
    [][(call'.op = "run" /\ call'.snapshot = "none")
       => (ret'.status = 500 /\ UNCHANGED <<stocks, tags, stock_tags>>)]_vars

\* the same for the endpoint of src/api/update-data.js alone
NoSnapshotFailsRun_dataA ==
    [][(call'.op = "run" /\ call'.snapshot = "none" /\ call'.variant = "dataA")
       => (ret'.status = 500 /\ UNCHANGED <<stocks, tags, stock_tags>>)]_vars

-----------------------------------------------------------------------------
(* Specification SpecPartial: one refresh run in which single tickers may  *)
(* fail: the standard endpoint (src/pages/api/update-tags.js) and the      *)
(* unified endpoint (src/pages/api/update-all-data.js).                    *)

NoCount == [k |-> "undef", v |-> 0]

\* call.failed: the tickers whose own fetch or write failed; call.runFailed: a
\* failure of the run itself
PartialRun(variant, failed, runFailed, status, counts, newStocks, st, stats) ==
    /\ call = NoCall
    /\ call' = [op |-> "run", variant |-> variant, failed |-> failed, runFailed |-> runFailed]
    /\ ret' = [status |-> status, success_count |-> counts[1], error_count |-> counts[2]]
    /\ stocks' = newStocks
    /\ tags' = st.tags
    /\ stock_tags' = st.stock_tags
    /\ update_stats' = stats

\* handler of src/pages/api/update-tags.js past the method and key checks
Partial_standard ==
    \/ \E stocksError \in {TRUE} :
           \* line 46: throw; the catch block records a failure row and sends 500
           PartialRun("standard", {}, TRUE, 500, <<NoCount, NoCount>>, stocks, Store,
                      insertStat(update_stats, StatRow("standard", 0, 0, 1, "cron")).rows)
    \/ \E quote \in [Tickers -> Quotes], updateError \in SUBSET Tickers,
          statsError \in BOOLEAN :
           LET ok == {t \in Tickers : ~QuoteInvalid(quote[t]) /\ t \notin updateError}
               n == Cardinality(Tickers)
               row == StatRow("standard", n, Cardinality(ok), n - Cardinality(ok), "cron")
           IN  PartialRun("standard", Tickers \ ok, FALSE, 200,
                          <<Num(Cardinality(ok)), Num(n - Cardinality(ok))>>,
                          [t \in Tickers |->
                              IF t \in ok THEN updateStock(stocks[t], quote[t]) ELSE stocks[t]],
                          Store,
                          IF statsError THEN update_stats
                          ELSE insertStat(update_stats, row).rows)

\* handler of src/pages/api/update-all-data.js past the key check, with a pool.
\* updateRaises: the tickers whose UPDATE statement (lines 259-262) raises
Partial_unified ==
    \/ \E queryFails \in {TRUE} :
           \* BEGIN, a SELECT, the DELETE, a tag statement or COMMIT raises
           PartialRun("unified", {}, TRUE, 500, <<NoCount, NoCount>>, stocks, Store,
                      update_stats)
    \/ \E bars \in [Tickers -> RunBars], fins \in [Tickers -> RunFins],
          updateRaises \in SUBSET Tickers, order \in RowOrders(Tickers) :
           LET snapshot == snapshot_unified(bars)
               newStocks == [t \in Tickers |->
                                reconcile_unified(stocks[t], snapshot[t], fins[t])]
               \* Object.keys(updates).length > 0
               written == {t \in Tickers : newStocks[t] # stocks[t]
                                           \/ snapshot[t] # NoBar
                                           \/ (HasMetric(fins[t]) /\ anyFundamental(fins[t].metric))}
               failed == written \cap updateRaises
               plan == plan_unified(newStocks, order)
           IN  IF failed # {}
               THEN \* the statement's error leaves the loop: catch, ROLLBACK, 500
                    PartialRun("unified", failed, FALSE, 500, <<NoCount, NoCount>>,
                               stocks, Store, update_stats)
               ELSE PartialRun("unified", {}, FALSE, 200,
                               <<Num(Cardinality(written)), NoCount>>, newStocks,
                               applyPlan_unified(clearDynamic_unified(Store), plan),
                               update_stats)

PartialInit ==
    /\ stocks \in [Tickers -> SnapshotRows]
    /\ tags = [n \in AllTagNames |-> NoTag]
    /\ stock_tags = {}
    /\ update_stats = <<>>
    /\ call = NoCall
    /\ ret = [status |-> 0, success_count |-> NoCount, error_count |-> NoCount]

PartialNext ==
    \/ Partial_standard
    \/ Partial_unified

SpecPartial == PartialInit /\ [][PartialNext]_vars

\* C18: a refresh run answers 200 with its success and error counts whenever only
\* single tickers failed, and 500 only when the run itself failed; no failure of a
\* single ticker turns the response into a 500.
C18_TickerFailureKeeps200 ==
    call.op = "run" =>
        /\ ~call.runFailed =>
              /\ ret.status = 200
              /\ ret.success_count.k = "num"
              /\ ret.error_count.k = "num"
        /\ ret.status = 500 => call.runFailed

\* the same for the standard endpoint alone
TickerFailureKeeps200_standard ==
    (call.op = "run" /\ call.variant = "standard") =>
        /\ ~call.runFailed =>
              /\ ret.status = 200
              /\ ret.success_count.k = "num"
              /\ ret.error_count.k = "num"
              /\ ret.error_count.v = Cardinality(call.failed)
        /\ ret.status = 500 => call.runFailed


-----------------------------------------------------------------------------
(* Specification SpecTagsOnly: the tags-only endpoint, handler of          *)
(* src/unnamed/part_005 lines 330-417, on a table of three stocks.         *)

ScenarioTickers == {"AAA", "BBB", "CCC"}

\* the three stocks of the worked example: 300B$, 5B$ and 1B$ of market_cap
ScenarioA ==
    [NullRow EXCEPT !.market_cap = Num(300000000), !.last_price = Num(50),
                    !.change_percent = Num(6)]
ScenarioB ==
    [NullRow EXCEPT !.market_cap = Num(5000000), !.last_price = Num(150),
                    !.change_percent = Num(-12)]
ScenarioC ==
    [NullRow EXCEPT !.market_cap = Num(1000000), !.last_price = Num(5),
                    !.change_percent = Num(0)]

ScenarioTable == [t \in ScenarioTickers |->
                     IF t = "AAA" THEN ScenarioA ELSE IF t = "BBB" THEN ScenarioB
                     ELSE ScenarioC]

TagsOnlyRows == {NullRow, ScenarioA, ScenarioB, ScenarioC}

\* cleanupOldDynamicTags, lines 315-328: DELETE FROM stock_tags WHERE stock_ticker = $1
\* AND tag_id IN (SELECT id FROM tags WHERE type = 'dynamic')
cleanupOldDynamicTags_tagsOnly(st, ticker) ==
    [st EXCEPT !.stock_tags = {p \in @ : ~(p[1] = ticker /\ st.tags[p[2]] = "dynamic")}]

\* applyTagsToStock, lines 283-312: per tag, INSERT INTO tags (name, 'dynamic') ON
\* CONFLICT (name) DO NOTHING, then INSERT INTO stock_tags ... ON CONFLICT DO NOTHING
applyTagsToStock_tagsOnly(st, ticker, names) ==
    [tags |-> [n \in DOMAIN st.tags |->
                  IF n \in names /\ st.tags[n] = NoTag THEN "dynamic" ELSE st.tags[n]],
     stock_tags |-> st.stock_tags \cup {<<ticker, n>> : n \in names}]

RECURSIVE updateTags_tagsOnly(_, _, _)
\* the loop of the handler, lines 366-392: per selected stock, cleanup, compute, apply
updateTags_tagsOnly(st, table, todo) ==
    IF todo = {} THEN st
    ELSE LET t == CHOOSE x \in todo : TRUE
         IN  updateTags_tagsOnly(
                 applyTagsToStock_tagsOnly(cleanupOldDynamicTags_tagsOnly(st, t), t,
                                           calculateDynamicTags_tagsOnly(table[t])),
                 table, todo \ {t})

TagsOnlyInit ==
    /\ stocks \in [ScenarioTickers -> TagsOnlyRows]
    /\ \E linked \in SUBSET ScenarioTickers :
          /\ stock_tags = {<<t, "StrongDown">> : t \in linked}
          /\ tags = [n \in AllTagNames |->
                        IF n = "StrongDown" /\ linked # {} THEN "dynamic" ELSE NoTag]
    /\ update_stats = <<>>
    /\ call = NoCall
    /\ ret = [status |-> 0, committed |-> FALSE, tagsRemoved |-> 0, tagsApplied |-> 0]

(* One request.  stamped: the rows the handler writes to table stocks and   *)
(* fetches: the provider requests it makes; the handler has no UPDATE and   *)
(* no fetch.  statementFails: a statement of the loop raises; the helpers   *)
(* and the loop catch it, PostgreSQL has aborted the transaction, every     *)
(* later statement fails the same way and COMMIT ends it as a rollback.     *)
TagsOnlyRequest(stamped, fetches) ==
    \E authorized \in BOOLEAN, queryFails \in BOOLEAN, statementFails \in BOOLEAN :
        LET selected == {t \in DOMAIN stocks : stocks[t].last_price.k # "null"}
            cleared == {p \in stock_tags : p[1] \in selected /\ tags[p[2]] = "dynamic"}
            st == updateTags_tagsOnly(Store, stocks, selected)
            committed == authorized /\ ~queryFails /\ ~statementFails
        IN  /\ call' = [op |-> "tagsOnlyRun", authorized |-> authorized,
                        fetches |-> IF authorized THEN fetches ELSE 0]
            /\ ret' = [status |-> IF ~authorized THEN 401
                                  ELSE IF queryFails THEN 500 ELSE 200,
                       committed |-> committed,
                       tagsRemoved |-> IF committed THEN Cardinality(cleared) ELSE 0,
                       tagsApplied |-> IF committed
                                       THEN Cardinality(st.stock_tags \ (stock_tags \ cleared))
                                       ELSE 0]
            /\ tags' = IF committed THEN st.tags ELSE tags
            /\ stock_tags' = IF committed THEN st.stock_tags ELSE stock_tags
            /\ stocks' = IF committed
                         THEN [t \in DOMAIN stocks |->
                                  IF t \in stamped THEN [stocks[t] EXCEPT !.last_updated = Now]
                                  ELSE stocks[t]]
                         ELSE stocks
            /\ UNCHANGED update_stats

\* a handler that also refreshed what it read
handler_tagsOnlyRefreshing == TagsOnlyRequest(DOMAIN stocks, 1)

handler_tagsOnly == TagsOnlyRequest({}, 0)

TagsOnlyNext == handler_tagsOnly

SpecTagsOnly == TagsOnlyInit /\ [][TagsOnlyNext]_vars

\* C19: on the table of the three stocks A (300B$, price 50, +6%), B (5B$, price
\* 150, -12%) and C (1B$, price 5, 0%), one tags-only run leaves A with MegaCap,
\* MidPrice and StrongUp, B with MidCap, MidPrice and StrongDown, C with MicroCap,
\* PennyPrice and Flat, and every stock tagged (tag coverage 100%).
C19_ScenarioTags ==
    (call.op = "tagsOnlyRun" /\ ret.committed /\ stocks = ScenarioTable) =>
        /\ {"MegaCap", "MidPrice", "StrongUp"} \subseteq TagsOfTicker(Store, "AAA")
        /\ {"MidCap", "MidPrice", "StrongDown"} \subseteq TagsOfTicker(Store, "BBB")
        /\ {"MicroCap", "PennyPrice", "Flat"} \subseteq TagsOfTicker(Store, "CCC")
        /\ 100 * Cardinality(TaggedStocks) = 100 * Cardinality(DOMAIN stocks)

\* what the run leaves on that table
ScenarioTagsOfTheRun ==
    (call.op = "tagsOnlyRun" /\ ret.committed /\ stocks = ScenarioTable) =>
        /\ TagsOfTicker(Store, "AAA") = {"MegaCap", "LowPrice", "StrongUp"}
        /\ TagsOfTicker(Store, "BBB") = {"SmallCap", "MidPrice", "LimitDown"}
        /\ TagsOfTicker(Store, "CCC") = {"MicroCap", "PennyPrice", "Flat"}
        /\ 100 * Cardinality(TaggedStocks) = 100 * Cardinality(DOMAIN stocks)

\* C20: a tags-only run makes no provider request and leaves every row of table
\* stocks (and the audit table) as it was; only tags and stock_tags change.
C20_TagsOnlyWritesOnlyTags ==
    [][(call'.op = "tagsOnlyRun") =>
          (stocks' = stocks /\ update_stats' = update_stats /\ call'.fetches = 0)]_vars

\* a committed run that removed an old association and filed new ones
C20_Witness ==
    /\ call.op = "tagsOnlyRun"
    /\ ret.committed /\ ret.tagsRemoved > 0 /\ ret.tagsApplied > 0
    /\ \E t \in DOMAIN stocks : stocks[t].last_price.k = "num"


-----------------------------------------------------------------------------
(* The tag appliers on an empty list and on an existing tag, checked under *)
(* SpecApply.                                                              *)

\* C21: after the tag applier is called for a tag with an empty ticker list, the
\* tag has no association left, whatever it was associated with before the call.
C21_EmptyListLeavesNoAssociation ==
    (call.op = "applyTag" /\ call.tickers = {})
        => TickersOf(Store, call.tagName) = {}

\* what the appliers do on an empty list: the tag keeps what it had
EmptyListKeepsAssociations ==
    (call.op = "applyTag" /\ call.tickers = {})
        => TickersOf(Store, call.tagName) = ret.before

\* C25: after the tag applier is called with a name, a family label and a
\* non-empty ticker list, the tag row of that name carries exactly that label,
\* also when the tag existed before under another label.
C25_AppliedTagCarriesGivenFamily ==
    (call.op = "applyTag" /\ call.tickers # {})
        => tags[call.tagName] = call.tagType

\* the same for the upserting applier of src/api/update-tags.js line 17 alone
AppliedTagCarriesGivenFamily_legacy ==
    (call.op = "applyTag" /\ call.variant = "legacy" /\ call.tickers # {})
        => tags[call.tagName] = call.tagType


-----------------------------------------------------------------------------
(* Specification SpecClear: runs of the three endpoints that start with a   *)
(* clearing statement, on a store seeded with one index-membership tag and  *)
(* one sector tag.  Further labels: SectorClassLegacy is the source string  *)
(* that puts a factory emoji and a space before the text of SectorClass,    *)
(* SpecialListLegacy the one that puts a star emoji and a space before the  *)
(* text of SpecialList (src/api/update-tags.js lines 142-160); SP500 is the *)
(* tag 标普500.  A row of this specification carries the column            *)
(* index_member, here TRUE when its text contains SP500.                    *)

WithIndexMember(row, member) == [index_member |-> member] @@ row

\* DELETE FROM stock_tags WHERE tag_id IN (SELECT id FROM tags
\*   WHERE type != '行业分类' AND type != '特殊名单类'), src/api/update-tags.js line 45
clearDynamic_legacy(st) ==
    [st EXCEPT !.stock_tags = {p \in @ : st.tags[p[2]] \in {"SectorClass", "SpecialList"}}]

\* src/api/update-tags.js lines 146-147: the members of the index, filed under the
\* label with the star.  (The sector lists of lines 128-143 need ten stocks of one
\* sector; tables of the model are smaller.)
staticPlan_legacy(table) ==
    << <<"SP500", "SpecialListLegacy", {t \in DOMAIN table : table[t].index_member}>> >>

RECURSIVE applyPlan_legacy(_, _)
\* the applyTag calls of a plan, in order, with the applier of src/api/update-tags.js line 17
applyPlan_legacy(st, plan) ==
    IF plan = <<>> THEN st
    ELSE applyPlan_legacy(
             applyTag_legacy(st, Head(plan)[1], Head(plan)[2], Head(plan)[3]), Tail(plan))

ClearNames == RunNames \cup {"HighYield", "TechStock", "SP500"}

StaticFamilies == {"SectorClass", "SpecialList", "SectorClassLegacy", "SpecialListLegacy"}

ClearFetched ==
    {[NullRow EXCEPT !.roe_ttm = Num(21), !.pe_ttm = Num(10), !.dividend_yield = Num(4)],
     NullRow}

ClearBars == {NoBar, Bar(100, 110, 5000)}
ClearFins == {FinNull, Fin(Metric(Num(20000), Num(25), Num(10), Num(112), Num(50), Num(4)))}

ClearInit ==
    /\ stocks \in [Tickers -> {WithIndexMember(NullRow, m) : m \in BOOLEAN}]
    /\ \E seeded \in SUBSET Tickers :
          /\ tags = [n \in ClearNames |->
                        IF n = "TechStock" /\ seeded # {} THEN "SectorClass" ELSE NoTag]
          /\ stock_tags = {<<t, "TechStock">> : t \in seeded}
    /\ update_stats = <<>>
    /\ call = NoCall
    /\ ret = [status |-> 0, committed |-> FALSE, tagsBefore |-> tags,
              before |-> {}, afterClear |-> {}]

\* One run.  ret.before and ret.tagsBefore: tables stock_tags and tags when the
\* clearing statement starts; ret.afterClear: stock_tags right after it.
ClearRun(variant, status, newStocks, cleared, st) ==
    /\ RunSeq < MaxRuns
    /\ call' = [op |-> "run", variant |-> variant, seq |-> RunSeq + 1]
    /\ ret' = [status |-> status, committed |-> (status = 200), tagsBefore |-> tags,
               before |-> stock_tags, afterClear |-> cleared.stock_tags]
    /\ stocks' = newStocks
    /\ tags' = st.tags
    /\ stock_tags' = st.stock_tags
    /\ UNCHANGED update_stats

\* handler of src/api/update-tags.js, lines 33-169
Clear_legacy ==
    \E allStockData \in [Tickers -> ClearFetched], order \in RowOrders(Tickers),
       commitFails \in BOOLEAN :
        LET cleared == clearDynamic_legacy(Store)
            plan == valuationPlan_legacy(allStockData, order) \o staticPlan_legacy(stocks)
        IN  IF commitFails
            THEN ClearRun("legacy", 500, stocks, cleared, Store)
            ELSE ClearRun("legacy", 200, stocks, cleared, applyPlan_legacy(cleared, plan))

\* handler of src/api/update-tags.js, lines 268-441
Clear_golden ==
    \E bars \in [Tickers -> ClearBars], fins \in [Tickers -> ClearFins] :
        LET newStocks == [t \in Tickers |-> reconcile_golden(stocks[t], bars[t], fins[t])]
            cleared == clearDynamic_golden(Store)
        IN  ClearRun("golden", 200, newStocks, cleared,
                     applyPlan_golden(cleared, plan_golden(newStocks)))

\* handler of src/pages/api/update-all-data.js, lines 156-320
Clear_unified ==
    \E bars \in [Tickers -> ClearBars], fins \in [Tickers -> ClearFins],
       order \in RowOrders(Tickers) :
        LET snapshot == snapshot_unified(bars)
            newStocks == [t \in Tickers |->
                             reconcile_unified(stocks[t], snapshot[t], fins[t])]
            cleared == clearDynamic_unified(Store)
        IN  ClearRun("unified", 200, newStocks, cleared,
                     applyPlan_unified(cleared, plan_unified(newStocks, order)))

ClearNext ==
    \/ Clear_legacy
    \/ Clear_golden
    \/ Clear_unified

SpecClear == ClearInit /\ [][ClearNext]_vars

\* C22: the clearing step of a run removes no association of a sector or
\* index-membership tag: every association of a tag of a static family that was
\* there when the step started is there right after it.
C22_ClearingKeepsStaticAssociations ==
    call.op = "run" =>
        \A p \in ret.before :
            ret.tagsBefore[p[2]] \in StaticFamilies => p \in ret.afterClear

\* the same for the clearing statement of src/pages/api/update-all-data.js line 270
ClearingKeepsStaticAssociations_unified ==
    (call.op = "run" /\ call.variant = "unified") =>
        \A p \in ret.before :
            ret.tagsBefore[p[2]] \in StaticFamilies => p \in ret.afterClear

\* the same for tags whose label is one of the two strings the statements name
ClearingKeepsPlainStaticAssociations ==
    call.op = "run" =>
        \A p \in ret.before :
            ret.tagsBefore[p[2]] \in {"SectorClass", "SpecialList"} => p \in ret.afterClear


-----------------------------------------------------------------------------
(* Specification SpecRace: two runs, each in its own transaction, file the  *)
(* same tag name.  Statements of the two runs interleave; under READ        *)
(* COMMITTED a SELECT sees the committed rows, an INSERT of a name another  *)
(* open transaction has written waits for that transaction to end, and an   *)
(* INSERT of a committed name raises the unique violation of tags.name.     *)
(* call.pc[r] is the position of run r in its applier: "begin", "selected"  *)
(* (the SELECT is done, call.found[r] its result), "applied" (the tag id is *)
(* known), "raised" (the INSERT raised), "done" (transaction ended).        *)
(* call.wrote[r] is the label of the tag row run r has written and not yet  *)
(* committed, NoTag when it wrote none.                                     *)

Racers == {1, 2}
RaceName == "LargeCap"
RaceVariants == {"unifiedB", "unified", "legacy"}

Other(r) == CHOOSE o \in Racers : o # r

RaceInit ==
    /\ stocks = [t \in Tickers |-> NullRow]
    /\ tags \in [{RaceName} -> {NoTag, "dynamic", "CapClass"}]
    /\ stock_tags = {}
    /\ update_stats = <<>>
    /\ \E variant \in [Racers -> RaceVariants], tagType \in [Racers -> {"dynamic", "CapClass"}] :
          \* applyTagToStock is only called with 'dynamic' (src/api/update-all-data.js line 135)
          /\ \A r \in Racers : variant[r] = "unifiedB" => tagType[r] = "dynamic"
          /\ call = [op |-> "race", variant |-> variant, tagType |-> tagType,
                     pc |-> [r \in Racers |-> "begin"],
                     found |-> [r \in Racers |-> FALSE],
                     wrote |-> [r \in Racers |-> NoTag]]
    /\ ret = [raised |-> {}]

RaceStep(r, pc, found, wrote) ==
    /\ call' = [call EXCEPT !.pc[r] = pc, !.found[r] = found, !.wrote[r] = wrote]
    /\ ret' = [raised |-> ret.raised \cup (IF pc = "raised" THEN {r} ELSE {})]
    /\ UNCHANGED <<stocks, tags, stock_tags, update_stats>>

\* the other transaction holds an uncommitted row of the name
Blocked(r) == call.wrote[Other(r)] # NoTag /\ call.pc[Other(r)] # "done"

\* SELECT id FROM tags WHERE name = $1 (src/pages/api/update-all-data.js lines 74-77)
\* SELECT id FROM tags WHERE name = $1 AND type = $2 (src/api/update-all-data.js lines 193-196)
Race_select(r) ==
    /\ call.op = "race" /\ call.pc[r] = "begin"
    /\ call.variant[r] \in {"unified", "unifiedB"}
    /\ RaceStep(r, "selected",
                IF call.variant[r] = "unified" THEN tags[RaceName] # NoTag
                ELSE tags[RaceName] = call.tagType[r],
                NoTag)

\* existingTags.length > 0: the id of the row found is used
Race_found(r) ==
    /\ call.op = "race" /\ call.pc[r] = "selected" /\ call.found[r]
    /\ RaceStep(r, "applied", TRUE, NoTag)

\* INSERT INTO tags (name, type) VALUES ($1, $2) RETURNING id
\* (src/pages/api/update-all-data.js lines 82-86, src/api/update-all-data.js lines 203-207)
Race_insert(r) ==
    /\ call.op = "race" /\ call.pc[r] = "selected" /\ ~call.found[r]
    /\ ~Blocked(r)
    /\ IF tags[RaceName] # NoTag
       THEN RaceStep(r, "raised", FALSE, NoTag)
       ELSE RaceStep(r, "applied", FALSE, call.tagType[r])

\* INSERT INTO tags (name, type) VALUES ($1, $2) ON CONFLICT (name) DO UPDATE SET
\* type = $2 RETURNING id (src/api/update-tags.js lines 19-22)
Race_upsert(r) ==
    /\ call.op = "race" /\ call.pc[r] = "begin" /\ call.variant[r] = "legacy"
    /\ ~Blocked(r)
    /\ RaceStep(r, "applied", tags[RaceName] # NoTag, call.tagType[r])

\* the association is inserted and the run's transaction commits
Race_commit(r) ==
    /\ call.op = "race" /\ call.pc[r] = "applied"
    /\ call' = [call EXCEPT !.pc[r] = "done"]
    /\ tags' = IF call.wrote[r] # NoTag THEN [tags EXCEPT ![RaceName] = call.wrote[r]]
               ELSE tags
    /\ stock_tags' = stock_tags \cup {<<"AAA", RaceName>>}
    /\ UNCHANGED <<stocks, update_stats, ret>>

\* the applier catches the error (src/pages/api/update-all-data.js lines 98-100,
\* src/api/update-all-data.js lines 218-220); the transaction is aborted and ends
\* without a write
Race_caught(r) ==
    /\ call.op = "race" /\ call.pc[r] = "raised"
    /\ call' = [call EXCEPT !.pc[r] = "done"]
    /\ UNCHANGED <<stocks, tags, stock_tags, update_stats, ret>>

RaceNext ==
    \E r \in Racers :
        \/ Race_select(r)
        \/ Race_found(r)
        \/ Race_insert(r)
        \/ Race_upsert(r)
        \/ Race_commit(r)
        \/ Race_caught(r)

SpecRace == RaceInit /\ [][RaceNext]_vars

\* C23: whatever the order of the statements of two runs that file the same tag
\* name, under the same or another family label, the name has at most one tag row
\* (tags maps a name to one label) and no application fails because the name is
\* already there.
C23_NoApplicationFailsOnExistingName ==
    call.op = "race" => ret.raised = {}

\* the same for two runs of the upserting applier of src/api/update-tags.js line 17
NoApplicationFailsOnExistingName_legacy ==
    (call.op = "race" /\ \A r \in Racers : call.variant[r] = "legacy")
        => ret.raised = {}

\* an applier of src/pages/api/update-all-data.js fails only when the other run
\* committed the name between its SELECT and its INSERT
UnifiedFailsOnlyInARace ==
    (call.op = "race" /\ \A r \in Racers : call.variant[r] = "unified")
        => \A r \in ret.raised : call.pc[Other(r)] = "done"


-----------------------------------------------------------------------------
(* Specification SpecLifecycle: runs of the unified, golden and tags-only   *)
(* endpoints in any order and number on a table of one stock.                 *)

LifeTickers == {"AAA"}

LifeInit ==
    /\ stocks = [t \in LifeTickers |-> NullRow]
    /\ tags = [n \in AllTagNames |-> NoTag]
    /\ stock_tags = {}
    /\ update_stats = <<>>
    /\ call = NoCall
    /\ ret = [status |-> 0, committed |-> FALSE, tagsBefore |-> tags]

\* a run: committed with the store st, or rolled back (the store stays as it was)
LifeRun(variant, committed, newStocks, st) ==
    /\ call' = [op |-> "run", variant |-> variant]
    /\ ret' = [status |-> IF committed THEN 200 ELSE 500, committed |-> committed,
               tagsBefore |-> tags]
    /\ stocks' = IF committed THEN newStocks ELSE stocks
    /\ tags' = IF committed THEN st.tags ELSE tags
    /\ stock_tags' = IF committed THEN st.stock_tags ELSE stock_tags
    /\ UNCHANGED update_stats

\* handler of src/pages/api/update-all-data.js, lines 156-330
Life_unified ==
    \E bars \in [LifeTickers -> ClearBars], fins \in [LifeTickers -> ClearFins],
       order \in RowOrders(LifeTickers), committed \in BOOLEAN :
        LET snapshot == snapshot_unified(bars)
            newStocks == [t \in LifeTickers |->
                             reconcile_unified(stocks[t], snapshot[t], fins[t])]
        IN  LifeRun("unified", committed, newStocks,
                    applyPlan_unified(clearDynamic_unified(Store),
                                      plan_unified(newStocks, order)))

\* handler of src/api/update-tags.js, lines 268-441
Life_golden ==
    \E bars \in [LifeTickers -> ClearBars], fins \in [LifeTickers -> ClearFins],
       committed \in BOOLEAN :
        LET newStocks == [t \in LifeTickers |->
                             reconcile_golden(stocks[t], bars[t], fins[t])]
        IN  LifeRun("golden", committed, newStocks,
                    applyPlan_golden(clearDynamic_golden(Store), plan_golden(newStocks)))

\* handler of src/unnamed/part_005, lines 330-417
Life_tagsOnly ==
    \E committed \in BOOLEAN :
        LET selected == {t \in DOMAIN stocks : stocks[t].last_price.k # "null"}
        IN  LifeRun("tagsOnly", committed, stocks,
                    updateTags_tagsOnly(Store, stocks, selected))

LifeNext ==
    \/ Life_unified
    \/ Life_golden
    \/ Life_tagsOnly

SpecLifecycle == LifeInit /\ [][LifeNext]_vars

\* C24: no run deletes a tag row: a tag that exists before a step exists after it,
\* also when the run left it without any stock.
C24_TagRowsAreNeverDeleted ==
    [][\A n \in DOMAIN tags : tags[n] # NoTag => tags'[n] # NoTag]_vars

\* a committed run has left a tag that no stock carries any more
C24_Witness ==
    /\ call.op = "run" /\ ret.committed
    /\ \E n \in DOMAIN tags :
          /\ ret.tagsBefore[n] # NoTag
          /\ tags[n] # NoTag
          /\ TickersOf(Store, n) = {}


-----------------------------------------------------------------------------
(* Specification SpecCount: the reconciliation loop of one run of the       *)
(* unified endpoint and of the endpoint of src/api/update-tags.js line 268, *)
(* with the keys of `updates` and successUpdateCount kept per ticker.       *)

\* the keys of metric that pass `if (metric.x)`, as the columns they are written to
fundamentalColumns(financialData) ==
    IF HasMetric(financialData)
    THEN LET m == financialData.metric IN
         (IF Truthy(m.marketCapitalization) THEN {"market_cap"} ELSE {})
         \cup (IF Truthy(m.roeTTM) THEN {"roe_ttm"} ELSE {})
         \cup (IF Truthy(m.peTTM) THEN {"pe_ttm"} ELSE {})
         \cup (IF Truthy(m.w52High) THEN {"week_52_high"} ELSE {})
         \cup (IF Truthy(m.w52Low) THEN {"week_52_low"} ELSE {})
         \cup (IF Truthy(m.dividendYieldAnnual) THEN {"dividend_yield"} ELSE {})
    ELSE {}

\* an `updates` object that held last_updated before its keys are counted
updatesStamped_unified(marketData, financialData) ==
    {"last_updated"}
    \cup (IF marketData.k = "obj" THEN {"last_price", "volume"} ELSE {})
    \cup fundamentalColumns(financialData)

\* Object.keys(updates) when the length test of line 255 is made,
\* src/pages/api/update-all-data.js lines 209-252
updates_unified(marketData, financialData) ==
    (IF marketData.k = "obj"
     THEN {"last_price", "volume"}
          \cup (IF JsGT(marketData.o, 0) THEN {"change_percent"} ELSE {})
     ELSE {})
    \cup fundamentalColumns(financialData)

\* the same for src/api/update-tags.js lines 304-335
updates_golden(marketData, financialData) ==
    (IF marketData.k = "obj"
     THEN {"last_price"} \cup (IF JsGT(marketData.o, 0) THEN {"change_percent"} ELSE {})
     ELSE {})
    \cup fundamentalColumns(financialData)

\* a row refreshed before this run
OldRow == [KnownRow EXCEPT !.last_updated = Num(0)]

CountBars == {NoBar, Bar(100, 110, 5000), Bar(0, 110, 5000)}

CountFins ==
    {FinNull, FinNoMetric,
     Fin(Metric(Num(0), NULL, UNDEF, UNDEF, UNDEF, Num(0))),
     Fin(Metric(Num(20000), Num(25), Num(10), Num(112), Num(50), Num(4)))}

CountInit ==
    /\ stocks \in [Tickers -> {NullRow, OldRow}]
    /\ tags = [n \in RunNames |-> NoTag]
    /\ stock_tags = {}
    /\ update_stats = <<>>
    /\ call = NoCall
    /\ ret = [status |-> 0, counted |-> {}, successUpdateCount |-> 0]

\* One committed run.  marketData[t] is polygonSnapshot.get(t); counted holds the
\* tickers for which successUpdateCount++ ran.
CountRun(variant, marketData, fins, counted, newStocks, st) ==
    /\ call = NoCall
    /\ call' = [op |-> "reconcileRun", variant |-> variant, marketData |-> marketData,
                fins |-> fins, before |-> stocks]
    /\ ret' = [status |-> 200, counted |-> counted,
               successUpdateCount |-> Cardinality(counted)]
    /\ stocks' = newStocks
    /\ tags' = st.tags
    /\ stock_tags' = st.stock_tags
    /\ UNCHANGED update_stats

\* handler of src/pages/api/update-all-data.js, lines 156-320
Count_unified ==
    \E bars \in [Tickers -> CountBars], fins \in [Tickers -> CountFins],
       order \in RowOrders(Tickers) :
        LET snapshot == snapshot_unified(bars)
            counted == {t \in Tickers : updates_unified(snapshot[t], fins[t]) # {}}
            newStocks == [t \in Tickers |->
                             IF t \in counted
                             THEN reconcile_unified(stocks[t], snapshot[t], fins[t])
                             ELSE stocks[t]]
        IN  CountRun("unified", snapshot, fins, counted, newStocks,
                     applyPlan_unified(clearDynamic_unified(Store),
                                       plan_unified(newStocks, order)))

\* handler of src/api/update-tags.js, lines 268-441
Count_golden ==
    \E bars \in [Tickers -> CountBars], fins \in [Tickers -> CountFins] :
        LET counted == {t \in Tickers : updates_golden(bars[t], fins[t]) # {}}
            newStocks == [t \in Tickers |->
                             IF t \in counted
                             THEN reconcile_golden(stocks[t], bars[t], fins[t])
                             ELSE stocks[t]]
        IN  CountRun("golden", bars, fins, counted, newStocks,
                     applyPlan_golden(clearDynamic_golden(Store), plan_golden(newStocks)))

CountNext ==
    \/ Count_unified
    \/ Count_golden

SpecCount == CountInit /\ [][CountNext]_vars

\* the snapshot holds the ticker, or the fundamentals hold a value that is written
FieldAssigned(t) ==
    \/ call.marketData[t].k = "obj"
    \/ (HasMetric(call.fins[t]) /\ anyFundamental(call.fins[t].metric))

\* C26: in a reconciliation a ticker's last_updated is set to the current time and
\* the ticker is counted as a success exactly when at least one field was assigned
\* from the snapshot or the fundamentals; when neither gave a value the row is not
\* written and the ticker is not counted.
C26_WrittenAndCountedIffAssigned ==
    call.op = "reconcileRun" =>
        /\ \A t \in Tickers :
              /\ FieldAssigned(t) => (stocks[t].last_updated = Now /\ t \in ret.counted)
              /\ ~FieldAssigned(t) => (stocks[t] = call.before[t] /\ t \notin ret.counted)
        /\ ret.successUpdateCount = Cardinality({t \in Tickers : FieldAssigned(t)})

\* one run in which a stale row got a field and the stamp and was counted, and a
\* ticker for which neither source gave a value was left alone and not counted
C26_Witness ==
    /\ call.op = "reconcileRun"
    /\ \E t \in Tickers :
          /\ FieldAssigned(t)
          /\ call.before[t].last_updated # Now
          /\ stocks[t].last_updated = Now
          /\ t \in ret.counted
    /\ \E t \in Tickers :
          /\ ~FieldAssigned(t)
          /\ call.fins[t] # FinNull
          /\ stocks[t] = call.before[t]
          /\ t \notin ret.counted


(***************************************************************************)
(* The two refresh endpoints as concurrent programs: the standard handler  *)
(* of src/pages/api/update-tags.js and the batch handler of                *)
(* pages/api/batch-update.js (src/unnamed/part_003).  One request is       *)
(* followed step by step: every await of the handler and of its ticker     *)
(* tasks is a point where the other tasks of the batch may run.            *)
(* call.task[t].pos is where the task of ticker t stands:                  *)
(*   "idle"      its batch has not started                                 *)
(*   "fetching"  await fetchStockData(...)                                 *)
(*   "writing"   await supabase.from('stocks').update(...)                 *)
(*   "waiting"   await setTimeout(1000 * retries)   (batch handler only)   *)
(*   "ok", "err" the task returned                                         *)
(* call.timer is the timeout the handler itself awaits between two batches.*)
(* attempts, writes, writeFailed, again and counted are history kept for   *)
(* the properties; retries, wait and quote are the handler's own values.   *)
(***************************************************************************)

\* number of stock rows the SELECT of the handler returns
MaxBatchStocks == 3

\* BATCH_SIZE of the two handlers (10 and 20 in the source), scaled down with
\* the number of rows so that a run has a full batch and a shorter last one
BatchSize_standard == 2
BatchSize_batch == 2

DELAY_BETWEEN_REQUESTS == 150
DELAY_BETWEEN_BATCHES == 2000
RETRY_DELAY_BASE == 1000

BatchModes == {"standard", "batch"}

BATCH_SIZE(mode) == IF mode = "standard" THEN BatchSize_standard ELSE BatchSize_batch

\* the timeout awaited between two batches, in ms
batchDelay(mode) ==
    IF mode = "standard" THEN DELAY_BETWEEN_REQUESTS ELSE DELAY_BETWEEN_BATCHES

\* .order('ticker'): stocks[k] of the handler is TickerNames[k + 1]
BatchTickers == {TickerNames[k] : k \in 1..MaxBatchStocks}
StockIndex(t) == (CHOOSE k \in 1..MaxBatchStocks : TickerNames[k] = t) - 1

\* stocks.slice(i, i + BATCH_SIZE)
batchSlice(i, mode) == {t \in BatchTickers : StockIndex(t) >= i /\ StockIndex(t) < i + BATCH_SIZE(mode)}

IdleTask ==
    [pos |-> "idle", retries |-> 0, wait |-> 0, quote |-> NoQuote, attempts |-> 0,
     writes |-> 0, writeFailed |-> FALSE, again |-> FALSE, counted |-> 0]

\* the async function of batch.map runs up to its first await: the fetch is started
startTask(tk) == [tk EXCEPT !.pos = "fetching", !.attempts = @ + 1, !.again = tk.writeFailed]

BatchQuotes == {NoQuote, Quote(110, 10, 10, 5000, 20000000)}

NoCounters == [status |-> 0, successCount |-> 0, errorCount |-> 0, errors |-> <<>>]

\* while (retries < MAX_RETRIES) is left through the return of line 336
exhaustedLate(retries) == retries > MAX_RETRIES

exhausted(retries) == retries >= MAX_RETRIES

\* catch block of the standard task: the failure is counted at once
catch_standard(tk, t, error, r) ==
    [task |-> [tk EXCEPT !.pos = "err", !.counted = @ + 1],
     ret |-> [r EXCEPT !.errorCount = @ + 1,
                       !.errors = Append(@, [ticker |-> t, error |-> error, retries |-> 0])]]

catch_batchCountingEach(tk, t, error, r) ==
    LET retries == tk.retries + 1
        counted == [r EXCEPT !.errorCount = @ + 1,
                             !.errors = Append(@, [ticker |-> t, error |-> error,
                                                   retries |-> retries])]
    IN  IF exhausted(retries)
        THEN [task |-> [tk EXCEPT !.pos = "err", !.retries = retries, !.counted = @ + 1],
              ret |-> counted]
        ELSE [task |-> [tk EXCEPT !.pos = "waiting", !.retries = retries, !.counted = @ + 1,
                                  !.wait = RETRY_DELAY_BASE * retries],
              ret |-> counted]

\* catch block of the batch task: retries++, then either the error is recorded and
\* the task returns, or the task waits 1000 * retries ms and the loop goes round
catch_batch(tk, t, error, r) ==
    LET retries == tk.retries + 1
    IN  IF exhausted(retries)
        THEN [task |-> [tk EXCEPT !.pos = "err", !.retries = retries, !.counted = @ + 1],
              ret |-> [r EXCEPT !.errorCount = @ + 1,
                                !.errors = Append(@, [ticker |-> t, error |-> error,
                                                      retries |-> retries])]]
        ELSE [task |-> [tk EXCEPT !.pos = "waiting", !.retries = retries,
                                  !.wait = RETRY_DELAY_BASE * retries],
              ret |-> r]

catchBlock(mode, tk, t, error, r) ==
    IF mode = "standard" THEN catch_standard(tk, t, error, r) ELSE catch_batch(tk, t, error, r)

\* Promise.race in the place of Promise.all
anySettled(task, batch) == \E t \in batch : task[t].pos \in {"ok", "err"}

\* await Promise.all(batchPromises): every task of the batch has returned
allSettled(task, batch) == \A t \in batch : task[t].pos \in {"ok", "err"}

BatchInit ==
    /\ stocks = [t \in BatchTickers |-> NullRow]
    /\ tags = [n \in RunNames |-> NoTag]
    /\ stock_tags = {}
    /\ update_stats = <<>>
    /\ call = NoCall
    /\ ret = NoCounters

Running == call.op = "batch" /\ call.phase = "running"

\* the request up to the first await inside the first batch
Batch_start ==
    /\ call = NoCall
    /\ \E mode \in BatchModes, method \in Methods, header \in GateHeaders, env \in GateEnvs,
          stocksError \in BOOLEAN :
         LET answer(status) ==
                 /\ call' = [op |-> "batch", mode |-> mode, phase |-> "done", i |-> 0,
                             delays |-> 0, timer |-> 0, task |-> [t \in BatchTickers |-> IdleTask]]
                 /\ ret' = [NoCounters EXCEPT !.status = status]
         IN  \/ /\ method # "GET"
                /\ answer(405)
                /\ UNCHANGED <<stocks, tags, stock_tags, update_stats>>
             \/ /\ method = "GET" /\ ~verifyApiKey(header, env).success
                /\ answer(401)
                /\ UNCHANGED <<stocks, tags, stock_tags, update_stats>>
             \/ /\ method = "GET" /\ verifyApiKey(header, env).success /\ stocksError
                /\ answer(500)
                \* the catch block of the standard handler records a failure row
                /\ update_stats' =
                       IF mode = "standard"
                       THEN insertStat(update_stats, StatRow("standard", 0, 0, 1, "cron")).rows
                       ELSE update_stats
                /\ UNCHANGED <<stocks, tags, stock_tags>>
             \/ /\ method = "GET" /\ verifyApiKey(header, env).success /\ ~stocksError
                /\ call' = [op |-> "batch", mode |-> mode, phase |-> "running", i |-> 0,
                            delays |-> 0, timer |-> 0,
                            task |-> [t \in BatchTickers |->
                                         IF t \in batchSlice(0, mode) THEN startTask(IdleTask)
                                         ELSE IdleTask]]
                /\ ret' = NoCounters
                /\ UNCHANGED <<stocks, tags, stock_tags, update_stats>>

\* fetchStockData settles: a valid quote starts the UPDATE, anything else throws
Task_fetched(t) ==
    /\ Running /\ call.task[t].pos = "fetching"
    /\ \E q \in BatchQuotes :
         IF QuoteInvalid(q)
         THEN LET c == catchBlock(call.mode, call.task[t], t, "No valid data", ret)
              IN  /\ call' = [call EXCEPT !.task[t] = c.task]
                  /\ ret' = c.ret
         ELSE /\ call' = [call EXCEPT !.task[t].pos = "writing", !.task[t].quote = q,
                                      !.task[t].writes = @ + 1]
              /\ ret' = ret
    /\ UNCHANGED <<stocks, tags, stock_tags, update_stats>>

\* the UPDATE of the stock row settles
Task_written(t) ==
    /\ Running /\ call.task[t].pos = "writing"
    /\ \E updateError \in BOOLEAN :
         IF updateError
         THEN LET tk == [call.task[t] EXCEPT !.writeFailed = TRUE]
                  c == catchBlock(call.mode, tk, t, "Database update failed", ret)
              IN  /\ call' = [call EXCEPT !.task[t] = c.task]
                  /\ ret' = c.ret
                  /\ UNCHANGED stocks
         ELSE /\ stocks' = [stocks EXCEPT ![t] = updateStock(@, call.task[t].quote)]
              /\ call' = [call EXCEPT !.task[t].pos = "ok", !.task[t].counted = @ + 1]
              /\ ret' = [ret EXCEPT !.successCount = @ + 1]
    /\ UNCHANGED <<tags, stock_tags, update_stats>>

\* the timer of line 339 fires: the loop test holds and the next attempt starts
Task_retry(t) ==
    /\ Running /\ call.task[t].pos = "waiting"
    /\ call' = [call EXCEPT !.task[t] = startTask([@ EXCEPT !.wait = 0])]
    /\ UNCHANGED <<stocks, tags, stock_tags, update_stats, ret>>

\* Promise.all resolves: the delay before the next batch starts, or, after the last
\* batch, the statistics row is written and the response sent
Batch_settled ==
    /\ Running /\ allSettled(call.task, batchSlice(call.i, call.mode))
    /\ IF call.i + BATCH_SIZE(call.mode) < MaxBatchStocks
       THEN /\ call' = [call EXCEPT !.phase = "delay", !.timer = batchDelay(call.mode)]
            /\ UNCHANGED <<update_stats, ret>>
       ELSE \E statsError \in BOOLEAN, sendThrows \in BOOLEAN :
              LET row == StatRow(call.mode, MaxBatchStocks, ret.successCount, ret.errorCount,
                                 IF call.mode = "standard" THEN "cron" ELSE "manual")
                  s1 == IF statsError THEN update_stats
                        ELSE insertStat(update_stats, row).rows
                  \* an exception while the response is sent lands in the catch block,
                  \* which in the standard handler records a failure row
                  s2 == IF sendThrows /\ call.mode = "standard"
                        THEN insertStat(s1, StatRow("standard", 0, 0, 1, "cron")).rows
                        ELSE s1
              IN  /\ update_stats' = s2
                  /\ call' = [call EXCEPT !.phase = "done"]
                  /\ ret' = [ret EXCEPT !.status = IF sendThrows THEN 500 ELSE 200]
    /\ UNCHANGED <<stocks, tags, stock_tags>>

\* the delay between two batches has elapsed: i += BATCH_SIZE, the tasks of the
\* next slice start
Batch_next ==
    /\ call.op = "batch" /\ call.phase = "delay"
    /\ LET i == call.i + BATCH_SIZE(call.mode)
       IN  call' = [call EXCEPT !.phase = "running", !.i = i, !.delays = @ + 1, !.timer = 0,
                                !.task = [t \in BatchTickers |->
                                             IF t \in batchSlice(i, call.mode)
                                             THEN startTask(call.task[t])
                                             ELSE call.task[t]]]
    /\ UNCHANGED <<stocks, tags, stock_tags, update_stats, ret>>

BatchNext ==
    \/ Batch_start
    \/ \E t \in BatchTickers : Task_fetched(t)
    \/ \E t \in BatchTickers : Task_written(t)
    \/ \E t \in BatchTickers : Task_retry(t)
    \/ Batch_settled
    \/ Batch_next

SpecBatch == BatchInit /\ [][BatchNext]_vars

\* every awaited promise and timer of a request settles
SpecBatchFair == SpecBatch /\ WF_vars(BatchNext)

BatchTask(t) == IF call.op = "batch" THEN call.task[t] ELSE IdleTask
InBatchRun(mode) == call.op = "batch" /\ call.mode = mode

\* C27: in a batch run retries apply only to the fetch step: a ticker whose fetch
\* succeeded but whose database write failed is not fetched or written again,
\* and it is counted as one error.
C27_WriteFailureIsNotRetried ==
    InBatchRun("batch") =>
        \A t \in BatchTickers :
            BatchTask(t).writeFailed =>
                /\ ~BatchTask(t).again
                /\ BatchTask(t).pos = "err"
                /\ BatchTask(t).counted = 1

\* the standard handler does not retry at all: a failed write is one error
WriteFailureIsNotRetried_standard ==
    InBatchRun("standard") =>
        \A t \in BatchTickers :
            BatchTask(t).writeFailed =>
                /\ ~BatchTask(t).again
                /\ BatchTask(t).pos = "err"
                /\ BatchTask(t).counted = 1

\* the batch handler retries whatever failed, up to MAX_RETRIES attempts in all
WriteFailureIsRetriedLikeAFetchFailure ==
    InBatchRun("batch") =>
        \A t \in BatchTickers :
            (BatchTask(t).writeFailed /\ BatchTask(t).pos = "fetching") =>
                (BatchTask(t).again /\ BatchTask(t).attempts <= MAX_RETRIES)


\* the entries of the error list that name ticker t
ErrorsOf(t) ==
    IF call.op = "batch" THEN {j \in 1..Len(ret.errors) : ret.errors[j].ticker = t} ELSE {}

AttemptsAreBoundedAndRecordedOnce ==
    InBatchRun("batch") =>
        \A t \in BatchTickers :
            /\ BatchTask(t).attempts <= 3
            /\ BatchTask(t).pos = "waiting" => BatchTask(t).wait = 1000 * BatchTask(t).attempts
            /\ BatchTask(t).pos = "err" =>
                   /\ BatchTask(t).attempts = 3
                   /\ Cardinality(ErrorsOf(t)) = 1
                   /\ \A j \in ErrorsOf(t) :
                          ret.errors[j].error \in {"No valid data", "Database update failed"}
                   /\ BatchTask(t).counted = 1
            /\ BatchTask(t).pos = "ok" => (ErrorsOf(t) = {} /\ BatchTask(t).counted = 1)
            /\ BatchTask(t).pos \notin {"ok", "err"} =>
                   (ErrorsOf(t) = {} /\ BatchTask(t).counted = 0)

BatchNo(t) == StockIndex(t) \div BATCH_SIZE(call.mode)

InFlight(t) == BatchTask(t).pos \in {"fetching", "writing", "waiting"}
Settled(t) == BatchTask(t).pos \in {"ok", "err"}

\* C29: batches are processed strictly one after another: no ticker of batch N+1
\* has started its fetch before every task of batch N has finished and the delay
\* between the two batches has elapsed, so the number of ticker tasks in flight
\* never exceeds the batch size.
C29_BatchesAreSequential ==
    call.op = "batch" =>
        /\ \A t, u \in BatchTickers :
               (BatchNo(u) > BatchNo(t) /\ BatchTask(u).pos # "idle") =>
                   (Settled(t) /\ call.delays >= BatchNo(u))
        /\ call.phase = "delay" => \A t \in BatchTickers : ~InFlight(t)
        /\ Cardinality({t \in BatchTickers : InFlight(t)}) <= BATCH_SIZE(call.mode)

\* a task of the second batch is in flight after the first batch ended with one
\* success and one error
C29_Witness ==
    /\ call.op = "batch" /\ call.delays = 1
    /\ \E t, u, w \in BatchTickers :
           /\ BatchNo(t) = 0 /\ BatchNo(u) = 0 /\ BatchNo(w) = 1
           /\ BatchTask(t).pos = "ok" /\ BatchTask(u).pos = "err"
           /\ InFlight(w)


RunCompleted == call.op = "batch" /\ call.phase = "done" /\ ret.status = 200

\* C30: when a standard or batch run completes, success_count + error_count is
\* total_stocks and every ticker has been counted exactly once, whatever the
\* interleaving of the tasks of a batch and whatever was retried.
C30_EveryTickerCountedOnce ==
    RunCompleted =>
        /\ ret.successCount + ret.errorCount = Cardinality(BatchTickers)
        /\ \A t \in BatchTickers : BatchTask(t).counted = 1
        /\ ret.successCount = Cardinality({t \in BatchTickers : BatchTask(t).pos = "ok"})
        /\ ret.errorCount = Cardinality({t \in BatchTickers : BatchTask(t).pos = "err"})
        /\ \A k \in 1..Len(update_stats) :
               update_stats[k].success_count + update_stats[k].error_count
                   = update_stats[k].total_stocks

\* a completed batch run with a statistics row, in which one ticker succeeded
\* after a failed attempt and another one ran out of attempts
C30_Witness ==
    /\ RunCompleted /\ call.mode = "batch" /\ Len(update_stats) = 1
    /\ \E t, u \in BatchTickers :
           /\ BatchTask(t).pos = "ok" /\ BatchTask(t).attempts > 1
           /\ BatchTask(u).pos = "err"


-----------------------------------------------------------------------------
(* Specification SpecWriteFail: one run in which the UPDATE of single      *)
(* stock rows may raise: the standard endpoint                             *)
(* (src/pages/api/update-tags.js) and the unified endpoint                 *)
(* (src/pages/api/update-all-data.js).  call.writeFailed holds the tickers *)
(* whose UPDATE raised in the run, call.processed the tickers whose turn   *)
(* of the loop ran, ret.errors the error list the run kept.                *)

ErrorEntry(t, error) == [ticker |-> t, error |-> error]

RECURSIVE writeLoop_unified(_, _, _, _, _, _)
\* for (const company of companies) { ... await client.query(UPDATE ...) }:
\* a statement that raises leaves the loop for the catch block of the handler
writeLoop_unified(rows, order, bars, fins, updateRaises, processed) ==
    IF order = <<>> THEN [raised |-> FALSE, at |-> {}, rows |-> rows, processed |-> processed]
    ELSE LET t == Head(order)
             written == updates_unified(bars[t], fins[t]) # {}
         IN  IF written /\ t \in updateRaises
             THEN [raised |-> TRUE, at |-> {t}, rows |-> rows,
                   processed |-> processed \cup {t}]
             ELSE writeLoop_unified(
                      [rows EXCEPT ![t] = reconcile_unified(@, bars[t], fins[t])],
                      Tail(order), bars, fins, updateRaises, processed \cup {t})

WriteFailRun(variant, writeFailed, processed, status, errors, newStocks, st) ==
    /\ call = NoCall
    /\ call' = [op |-> "run", variant |-> variant, writeFailed |-> writeFailed,
                processed |-> processed]
    /\ ret' = [status |-> status, errors |-> errors]
    /\ stocks' = newStocks
    /\ tags' = st.tags
    /\ stock_tags' = st.stock_tags
    /\ UNCHANGED update_stats

\* the batches of src/pages/api/update-tags.js: every task has its own try/catch
WriteFail_standard ==
    \E quote \in [Tickers -> BatchQuotes], updateError \in SUBSET Tickers :
        LET invalid == {t \in Tickers : QuoteInvalid(quote[t])}
            writeFailed == (Tickers \ invalid) \cap updateError
            errors == {ErrorEntry(t, "No valid data") : t \in invalid}
                          \cup {ErrorEntry(t, "Database update failed") : t \in writeFailed}
        IN  WriteFailRun("standard", writeFailed, Tickers, 200, errors,
                         [t \in Tickers |->
                             IF t \in invalid \cup writeFailed THEN stocks[t]
                             ELSE updateStock(stocks[t], quote[t])],
                         Store)

\* lines 189-331 of src/pages/api/update-all-data.js: the UPDATE statements run
\* inside the try block of the handler, whose catch rolls back and answers 500
WriteFail_unified ==
    \E bars \in [Tickers -> ClearBars], fins \in [Tickers -> ClearFins],
       updateRaises \in SUBSET Tickers, order \in RowOrders(Tickers) :
        LET loop == writeLoop_unified(stocks, order, snapshot_unified(bars), fins,
                                      updateRaises, {})
            plan == plan_unified(loop.rows, order)
        IN  IF loop.raised
            THEN WriteFailRun("unified", loop.at, loop.processed, 500, {}, stocks, Store)
            ELSE WriteFailRun("unified", {}, loop.processed, 200, {}, loop.rows,
                              applyPlan_unified(clearDynamic_unified(Store), plan))

WriteFailInit ==
    /\ stocks \in [Tickers -> SnapshotRows]
    /\ tags = [n \in RunNames |-> NoTag]
    /\ stock_tags = {}
    /\ update_stats = <<>>
    /\ call = NoCall
    /\ ret = [status |-> 0, errors |-> {}]

WriteFailNext ==
    \/ WriteFail_standard
    \/ WriteFail_unified

SpecWriteFail == WriteFailInit /\ [][WriteFailNext]_vars

\* C31: a failed write for one ticker is caught and recorded in the error list of
\* the run with the ticker and the message, every other ticker of the run is
\* still processed, and the failure does not end the run.
C31_WriteFailureIsRecordedAndRunGoesOn ==
    (call.op = "run" /\ call.writeFailed # {}) =>
        /\ \A t \in call.writeFailed :
               \E e \in ret.errors : e.ticker = t /\ e.error = "Database update failed"
        /\ call.processed = Tickers
        /\ ret.status = 200

\* the standard endpoint alone
WriteFailureIsRecordedAndRunGoesOn_standard ==
    (call.op = "run" /\ call.variant = "standard" /\ call.writeFailed # {}) =>
        /\ \A t \in call.writeFailed :
               \E e \in ret.errors : e.ticker = t /\ e.error = "Database update failed"
        /\ call.processed = Tickers
        /\ ret.status = 200

\* in the unified endpoint the first failed write ends the run: 500, nothing
\* recorded, nothing stored
WriteFailureEndsRun_unified ==
    (call.op = "run" /\ call.variant = "unified" /\ call.writeFailed # {}) =>
        /\ ret.status = 500 /\ ret.errors = {}
        /\ Cardinality(call.writeFailed) = 1


-----------------------------------------------------------------------------
(* Specification SpecTagFail: one run of the unified endpoint              *)
(* (src/pages/api/update-all-data.js) or of the endpoint of                *)
(* src/api/update-tags.js, line 268, in which a statement of one applyTag  *)
(* call may raise.  A statement that raises inside a PostgreSQL            *)
(* transaction aborts the transaction: every later statement raises too,   *)
(* and COMMIT ends the transaction as a rollback without raising.          *)
(* raisesAt counts the applyTag calls that reach a statement (those with a *)
(* non-empty list); 0 means that none raises.                              *)

RECURSIVE tagsLoop_unified(_, _, _, _, _)
\* the applyTag calls of the unified endpoint: the try/catch of lines 72-101 keeps
\* the error inside the call
tagsLoop_unified(st, plan, raisesAt, aborted, caught) ==
    IF plan = <<>> THEN [st |-> st, aborted |-> aborted, caught |-> caught]
    ELSE LET e == Head(plan)
         IN  IF e[3] = {}
             THEN tagsLoop_unified(st, Tail(plan), raisesAt, aborted, caught)
             ELSE IF aborted \/ raisesAt = 1
             THEN tagsLoop_unified(st, Tail(plan), raisesAt - 1, TRUE, Append(caught, e[1]))
             ELSE tagsLoop_unified(applyTag_unified(st, e[1], e[2], e[3]), Tail(plan),
                                   raisesAt - 1, FALSE, caught)

RECURSIVE tagsLoop_golden(_, _, _)
\* the applyTag calls of src/api/update-tags.js, line 231: no try/catch, the error
\* reaches the catch block of the handler
tagsLoop_golden(st, plan, raisesAt) ==
    IF plan = <<>> THEN [st |-> st, raised |-> {}]
    ELSE LET e == Head(plan)
         IN  IF e[3] = {} THEN tagsLoop_golden(st, Tail(plan), raisesAt)
             ELSE IF raisesAt = 1 THEN [st |-> st, raised |-> {e[1]}]
             ELSE tagsLoop_golden(applyTag_golden(st, e[1], e[2], e[3]), Tail(plan),
                                  raisesAt - 1)

\* the applyTag calls of a plan that reach a statement
activeCalls(plan) == Cardinality({i \in 1..Len(plan) : plan[i][3] # {}})

\* call.failedTag: the tag whose application raised first; call.caught: the tags,
\* in the order of the calls, whose error a catch block inside applyTag took
\* (tagsLoop_unified collects them);
\* call.plan: the applyTag calls of the run
TagFailRun(variant, failedTag, caught, plan, status, committed, newStocks, st) ==
    /\ call = NoCall
    /\ call' = [op |-> "run", variant |-> variant, failedTag |-> failedTag,
                caught |-> caught, plan |-> plan]
    /\ ret' = [status |-> status, committed |-> committed]
    /\ stocks' = newStocks
    /\ tags' = st.tags
    /\ stock_tags' = st.stock_tags
    /\ UNCHANGED update_stats

\* handler of src/pages/api/update-all-data.js, lines 156-331
TagFail_unified ==
    \E bars \in [Tickers -> ClearBars], fins \in [Tickers -> ClearFins],
       order \in RowOrders(Tickers) :
        LET snapshot == snapshot_unified(bars)
            newStocks == [t \in Tickers |->
                             reconcile_unified(stocks[t], snapshot[t], fins[t])]
            plan == plan_unified(newStocks, order)
        IN  \E raisesAt \in 0..activeCalls(plan) :
                LET loop == tagsLoop_unified(clearDynamic_unified(Store), plan, raisesAt,
                                             FALSE, <<>>)
                IN  IF loop.aborted
                    THEN \* COMMIT of an aborted transaction rolls back; line 305 goes on
                         TagFailRun("unified", {Head(loop.caught)}, SeqRange(loop.caught),
                                    plan, 200, FALSE, stocks, Store)
                    ELSE TagFailRun("unified", {}, {}, plan, 200, TRUE, newStocks, loop.st)

\* handler of src/api/update-tags.js, lines 268-441
TagFail_golden ==
    \E bars \in [Tickers -> ClearBars], fins \in [Tickers -> ClearFins] :
        LET newStocks == [t \in Tickers |-> reconcile_golden(stocks[t], bars[t], fins[t])]
            plan == plan_golden(newStocks)
        IN  \E raisesAt \in 0..activeCalls(plan) :
                LET loop == tagsLoop_golden(clearDynamic_golden(Store), plan, raisesAt)
                IN  IF loop.raised # {}
                    THEN \* catch of line 434: ROLLBACK, 500
                         TagFailRun("golden", loop.raised, {}, plan, 500, FALSE,
                                    stocks, Store)
                    ELSE TagFailRun("golden", {}, {}, plan, 200, TRUE, newStocks, loop.st)

TagFailInit ==
    /\ stocks \in [Tickers -> SnapshotRows]
    /\ tags = [n \in RunNames |-> NoTag]
    /\ stock_tags = {}
    /\ update_stats = <<>>
    /\ call = NoCall
    /\ ret = [status |-> 0, committed |-> FALSE]

TagFailNext ==
    \/ TagFail_unified
    \/ TagFail_golden

SpecTagFail == TagFailInit /\ [][TagFailNext]_vars

\* the calls of the run, other than the failed one, that had stocks to tag
OtherCalls == {i \in 1..Len(call.plan) :
                  call.plan[i][3] # {} /\ call.plan[i][1] \notin call.failedTag}

\* C32: a failure while one tag is applied is caught for that tag, every other tag
\* of the run is still applied and committed: the run is not aborted and the
\* associations of the other tags are stored.
C32_OneFailingTagLeavesTheOthersStored ==
    (call.op = "run" /\ call.failedTag # {}) =>
        /\ ret.status = 200 /\ ret.committed
        /\ \A i \in OtherCalls :
               call.plan[i][3] \subseteq TickersOf(Store, call.plan[i][1])

\* the unified endpoint catches the error per tag and answers 200, but the
\* transaction is lost: nothing of the run is stored
TagFailureLosesTheRun_unified ==
    (call.op = "run" /\ call.variant = "unified" /\ call.failedTag # {}) =>
        /\ ret.status = 200 /\ ~ret.committed
        /\ call.failedTag \subseteq call.caught
        /\ stock_tags = {}
        /\ \A n \in DOMAIN tags : tags[n] = NoTag

\* the endpoint of src/api/update-tags.js does not catch per tag: ROLLBACK and 500
TagFailureAbortsTheRun_golden ==
    (call.op = "run" /\ call.variant = "golden" /\ call.failedTag # {}) =>
        /\ ret.status = 500 /\ ~ret.committed
        /\ stock_tags = {}


-----------------------------------------------------------------------------
(* Specification SpecRateLimit: one run of the unified endpoint            *)
(* (src/pages/api/update-all-data.js) or of the endpoint of                *)
(* src/api/update-tags.js, line 268, against a fundamentals provider that  *)
(* may answer 429.  answers[t] lists what the provider would answer to the *)
(* first and to a second request for ticker t during the run.              *)

FinResponse(status, body) == [ok |-> status = 200, status |-> status, body |-> body]

FinResponses ==
    {FinResponse(200, Fin(Metric(Num(20000), Num(25), Num(10), Num(112), Num(50), Num(4)))),
     FinResponse(429, FinNull),
     FinResponse(500, FinNull)}

FinAnswers == {<<a, b>> : a \in FinResponses, b \in FinResponses}

\* a fetcher that asks again after a 429
getFinnhubMetricsRetrying(answers) ==
    IF answers[1].status = 429
    THEN [data |-> IF answers[2].ok THEN answers[2].body ELSE FinNull, requests |-> 2]
    ELSE [data |-> IF answers[1].ok THEN answers[1].body ELSE FinNull, requests |-> 1]

\* getFinnhubMetrics of src/pages/api/update-all-data.js: one fetch; 429 returns
\* null, any other failure throws into the catch block, which returns null
getFinnhubMetrics_unified(answers) ==
    LET response == answers[1]
    IN  IF ~response.ok
        THEN IF response.status = 429 THEN [data |-> FinNull, requests |-> 1]
             ELSE [data |-> FinNull, requests |-> 1]
        ELSE [data |-> response.body, requests |-> 1]

\* getFinnhubMetrics of src/api/update-tags.js, line 212
getFinnhubMetrics_golden(answers) ==
    LET res == answers[1]
    IN  IF ~res.ok THEN [data |-> FinNull, requests |-> 1]
        ELSE [data |-> res.body, requests |-> 1]

\* call.limited: the tickers whose first answer was 429; call.snapshot: the bars
\* of the run; call.requests: the requests made per ticker; ret.before: the
\* stocks table when the run started
RateLimitRun(variant, answers, snapshot, requests, newStocks, st) ==
    /\ call = NoCall
    /\ call' = [op |-> "run", variant |-> variant,
                limited |-> {t \in Tickers : answers[t][1].status = 429},
                snapshot |-> snapshot, requests |-> requests]
    /\ ret' = [status |-> 200, committed |-> TRUE, before |-> stocks]
    /\ stocks' = newStocks
    /\ tags' = st.tags
    /\ stock_tags' = st.stock_tags
    /\ UNCHANGED update_stats

\* handler of src/pages/api/update-all-data.js, lines 156-331
RateLimit_unified ==
    \E bars \in [Tickers -> ClearBars], answers \in [Tickers -> FinAnswers],
       order \in RowOrders(Tickers) :
        LET snapshot == snapshot_unified(bars)
            got == [t \in Tickers |-> getFinnhubMetrics_unified(answers[t])]
            newStocks == [t \in Tickers |->
                             reconcile_unified(stocks[t], snapshot[t], got[t].data)]
        IN  RateLimitRun("unified", answers, snapshot, [t \in Tickers |-> got[t].requests],
                         newStocks,
                         applyPlan_unified(clearDynamic_unified(Store),
                                           plan_unified(newStocks, order)))

\* handler of src/api/update-tags.js, lines 268-441
RateLimit_golden ==
    \E bars \in [Tickers -> ClearBars], answers \in [Tickers -> FinAnswers] :
        LET got == [t \in Tickers |-> getFinnhubMetrics_golden(answers[t])]
            newStocks == [t \in Tickers |->
                             reconcile_golden(stocks[t], bars[t], got[t].data)]
        IN  RateLimitRun("golden", answers, bars, [t \in Tickers |-> got[t].requests],
                         newStocks,
                         applyPlan_golden(clearDynamic_golden(Store), plan_golden(newStocks)))

RateLimitInit ==
    /\ stocks \in [Tickers -> {NullRow, OldRow}]
    /\ tags = [n \in RunNames |-> NoTag]
    /\ stock_tags = {}
    /\ update_stats = <<>>
    /\ call = NoCall
    /\ ret = [status |-> 0, committed |-> FALSE, before |-> stocks]

RateLimitNext ==
    \/ RateLimit_unified
    \/ RateLimit_golden

SpecRateLimit == RateLimitInit /\ [][RateLimitNext]_vars

FundamentalFields ==
    {"market_cap", "roe_ttm", "pe_ttm", "week_52_high", "week_52_low", "dividend_yield"}

\* C33: a 429 of the fundamentals provider for a ticker gives null for that call
\* without a second request, does not abort the run, and leaves every stored
\* fundamentals field of the ticker as it was while the fields taken from the
\* snapshot are still updated.
C33_RateLimitKeepsFundamentals ==
    call.op = "run" =>
        \A t \in call.limited :
            /\ call.requests[t] = 1
            /\ ret.status = 200 /\ ret.committed
            /\ \A f \in FundamentalFields : stocks[t][f] = ret.before[t][f]
            /\ call.snapshot[t] # NoBar =>
                   /\ stocks[t].last_price = call.snapshot[t].c
                   /\ stocks[t].change_percent =
                          JsPercent(call.snapshot[t].c, call.snapshot[t].o)
                   /\ stocks[t].last_updated = Now
                   /\ call.variant = "unified" => stocks[t].volume = call.snapshot[t].v

\* a rate-limited ticker with stored fundamentals got a new price, in a run that
\* also stored new fundamentals for another ticker
C33_Witness ==
    /\ call.op = "run"
    /\ \E t \in call.limited, u \in Tickers \ call.limited :
           /\ ret.before[t] = OldRow
           /\ call.snapshot[t] # NoBar
           /\ stocks[t].last_price # OldRow.last_price
           /\ stocks[t].roe_ttm = OldRow.roe_ttm
           /\ stocks[u].roe_ttm # ret.before[u].roe_ttm


-----------------------------------------------------------------------------
(* Specification SpecFetcher: getPolygonSnapshot of src/api/update-data.js *)
(* (dataA), of src/pages/api/update-data.js (dataP) and of                 *)
(* src/api/update-tags.js, line 177 (golden), as functions of what the     *)
(* provider answers per date.  A date is the number of days before the day *)
(* of the call; call.responses[d] is the answer for date d:                *)
(*   "error"  fetch throws (network, timeout)                              *)
(*   "notOk"  a response whose ok is false                                 *)
(*   "empty"  an OK response without results                               *)
(*   "data"   an OK response with results                                  *)

SnapshotKinds == {"error", "notOk", "empty", "data"}

RECURSIVE snapshotLoop(_, _, _)
\* for (let i = 0; i < 7; i++) { ... date.setDate(date.getDate() - 1) }
snapshotLoop(responses, i, requests) ==
    IF i >= PolygonAttempts
    THEN [result |-> "throw", date |-> 0, requests |-> requests]
    ELSE IF responses[i] = "data"
         THEN [result |-> "map", date |-> i, requests |-> Append(requests, i)]
         ELSE snapshotLoop(responses, i + 1, Append(requests, i))

\* src/api/update-data.js, line 6: the first date tried is the day of the call
getPolygonSnapshot_dataA(responses) == snapshotLoop(responses, 0, <<>>)

\* src/pages/api/update-data.js, line 4
getPolygonSnapshot_dataP(responses) == snapshotLoop(responses, 0, <<>>)

\* src/api/update-tags.js, line 177: one request, for the day before the call; a
\* response that is not OK, a fetch that throws and an OK response without results
\* all give an empty Map
getPolygonSnapshot_golden(responses) ==
    IF responses[1] = "data"
    THEN [result |-> "map", date |-> 1, requests |-> <<1>>]
    ELSE [result |-> "emptyMap", date |-> 1, requests |-> <<1>>]

FetcherInit ==
    /\ stocks = [t \in Tickers |-> NullRow]
    /\ tags = [n \in RunNames |-> NoTag]
    /\ stock_tags = {}
    /\ update_stats = <<>>
    /\ call \in {[op |-> "input", responses |-> r] : r \in [0..PolygonAttempts -> SnapshotKinds]}
    /\ ret = [result |-> "none", date |-> 0, requests |-> <<>>]

Fetch(variant, got) ==
    /\ call.op = "input"
    /\ call' = [op |-> "snapshot", variant |-> variant, responses |-> call.responses]
    /\ ret' = got
    /\ UNCHANGED <<stocks, tags, stock_tags, update_stats>>

Call_getPolygonSnapshot_dataA == Fetch("dataA", getPolygonSnapshot_dataA(call.responses))
Call_getPolygonSnapshot_dataP == Fetch("dataP", getPolygonSnapshot_dataP(call.responses))
Call_getPolygonSnapshot_golden == Fetch("golden", getPolygonSnapshot_golden(call.responses))

FetcherNext ==
    \/ Call_getPolygonSnapshot_dataA
    \/ Call_getPolygonSnapshot_dataP
    \/ Call_getPolygonSnapshot_golden

SpecFetcher == FetcherInit /\ [][FetcherNext]_vars

\* the dates of the 7-day window that starts at the first date tried and have data
AvailableDates ==
    {d \in 0..PolygonAttempts :
        /\ Len(ret.requests) > 0
        /\ d >= ret.requests[1] /\ d < ret.requests[1] + 7
        /\ call.responses[d] = "data"}

WalksBackToFirstAvailableDate ==
    /\ Len(ret.requests) >= 1 /\ Len(ret.requests) <= 7
    /\ \A i \in 1..(Len(ret.requests) - 1) : ret.requests[i + 1] = ret.requests[i] + 1
    /\ ret.result \in {"map", "throw"}
    /\ AvailableDates # {} =>
           /\ ret.result = "map"
           /\ ret.date \in AvailableDates
           /\ \A d \in AvailableDates : ret.date <= d
           /\ ret.requests[Len(ret.requests)] = ret.date
    /\ AvailableDates = {} => (ret.result = "throw" /\ Len(ret.requests) = 7)

\* C34: the snapshot fetcher tries consecutive dates going back one day at a time,
\* makes at most 7 attempts, returns the data of the first attempted date whose
\* response is OK and not empty (the most recent such date of the 7-day window),
\* makes no request after that one, and ends with a map or with a failure.
C34_SnapshotWalksBackSevenDays ==
    call.op = "snapshot" => WalksBackToFirstAvailableDate

\* the fetchers of the two update-data endpoints
SnapshotWalksBackSevenDays_data ==
    (call.op = "snapshot" /\ call.variant \in {"dataA", "dataP"}) =>
        WalksBackToFirstAvailableDate

\* the fetcher of src/api/update-tags.js asks once, for the day before the call
SnapshotAsksOnce_golden ==
    (call.op = "snapshot" /\ call.variant = "golden") =>
        /\ ret.requests = <<1>>
        /\ ret.result = "map" <=> call.responses[1] = "data"


-----------------------------------------------------------------------------
(* Specification SpecSelectLimit: one run of the tags-only endpoint        *)
(* (src/unnamed/part_005 lines 330-417) or of the endpoint of              *)
(* src/api/update-all-data.js on a table that holds one stock more than    *)
(* the SELECT of the run returns.  Both read                               *)
(*   SELECT ... FROM stocks WHERE last_price IS NOT NULL                   *)
(*   ORDER BY market_cap DESC NULLS LAST LIMIT 200                         *)
(* and SelectLimit stands for the 200 of that statement.                   *)

SelectLimit == 2

LimitTickers == {HealthTickerNames[i] : i \in 1..(SelectLimit + 1)}

\* ORDER BY market_cap DESC NULLS LAST: the sort key of a row
capKey(row) == IF row.market_cap.k = "num" THEN row.market_cap.v ELSE -1

\* the results the SELECT can have: the first limit rows by market_cap among the
\* rows with a price; rows of equal market_cap come in any order
selectStocks(table, limit) ==
    LET priced == {t \in DOMAIN table : table[t].last_price.k # "null"}
        size == IF Cardinality(priced) < limit THEN Cardinality(priced) ELSE limit
    IN  {S \in SUBSET priced :
            /\ Cardinality(S) = size
            /\ \A s \in S, u \in priced \ S : capKey(table[s]) >= capKey(table[u])}

SelectLimitInit ==
    /\ stocks \in [LimitTickers -> TagsOnlyRows]
    /\ \E linked \in SUBSET LimitTickers :
          /\ stock_tags = {<<t, "StrongDown">> : t \in linked}
          /\ tags = [n \in AllTagNames |->
                        IF n = "StrongDown" /\ linked # {} THEN "dynamic" ELSE NoTag]
    /\ update_stats = <<>>
    /\ call = NoCall
    /\ ret = [status |-> 0, committed |-> FALSE]

\* call.selected: the rows of the SELECT; call.before: table stock_tags at BEGIN
LimitRun(variant, selected, status, newStocks, st) ==
    /\ call = NoCall
    /\ call' = [op |-> "limitRun", variant |-> variant, selected |-> selected,
                before |-> stock_tags]
    /\ ret' = [status |-> status, committed |-> (status = 200)]
    /\ stocks' = newStocks
    /\ tags' = st.tags
    /\ stock_tags' = st.stock_tags
    /\ UNCHANGED update_stats

\* handler of src/unnamed/part_005, lines 330-417.  queryFails: the SELECT raises;
\* catch: ROLLBACK, 500
Limit_tagsOnly ==
    \E queryFails \in BOOLEAN, selected \in selectStocks(stocks, SelectLimit) :
        IF queryFails
        THEN LimitRun("tagsOnly", {}, 500, stocks, Store)
        ELSE LimitRun("tagsOnly", selected, 200, stocks,
                      updateTags_tagsOnly(Store, stocks, selected))

\* handler of src/api/update-all-data.js, lines 2-56, with updateStockData and
\* updateDynamicTags.  fetched = FALSE: getPolygonSnapshot returns null and the
\* stock updates are skipped
Limit_unifiedB ==
    \E fetched \in BOOLEAN, bars \in [LimitTickers -> ClearBars],
       fins \in [LimitTickers -> ClearFins] :
        LET newStocks == IF fetched
                         THEN [t \in LimitTickers |->
                                  reconcile_unifiedB(stocks[t], bars[t], fins[t])]
                         ELSE stocks
        IN  \E selected \in selectStocks(newStocks, SelectLimit) :
                LimitRun("unifiedB", selected, 200, newStocks,
                         updateDynamicTags_unifiedB(Store, newStocks, selected))

SelectLimitNext ==
    \/ Limit_tagsOnly
    \/ Limit_unifiedB

SpecSelectLimit == SelectLimitInit /\ [][SelectLimitNext]_vars

\* the associations of a stock with tags of type 'dynamic'
DynamicTagsOf(t) == {n \in TagsOfTicker(Store, t) : tags[n] = "dynamic"}

\* what the rule engine of the run's endpoint yields from a stored row
EngineOutput(variant, row) ==
    IF variant = "tagsOnly" THEN calculateDynamicTags_tagsOnly(row)
    ELSE calculateDynamicTags_unifiedB(row)

\* C35: after a committed run of the tag recomputation every stock with a stored
\* price carries exactly the dynamic tags the rule engine yields from its stored
\* values, however many stocks the table holds.
C35_DynamicTagsFollowStoredValues ==
    (call.op = "limitRun" /\ ret.committed) =>
        \A t \in LimitTickers :
            stocks[t].last_price.k # "null" =>
                DynamicTagsOf(t) = EngineOutput(call.variant, stocks[t])

\* the stocks the SELECT returned carry the tags of the engine
SelectedStocksFollowStoredValues ==
    (call.op = "limitRun" /\ ret.committed) =>
        \A t \in call.selected :
            DynamicTagsOf(t) = EngineOutput(call.variant, stocks[t])

\* a stock with a price that the SELECT did not return keeps the associations it
\* had before the run
StocksBeyondTheLimitKeepTheirTags ==
    (call.op = "limitRun" /\ ret.committed) =>
        \A t \in LimitTickers \ call.selected :
            {p \in stock_tags : p[1] = t} = {p \in call.before : p[1] = t}

\* no more rows than the limit are recomputed
AtMostLimitStocksRecomputed ==
    call.op = "limitRun" => Cardinality(call.selected) <= SelectLimit


-----------------------------------------------------------------------------
(* Specification SpecBatchMode: one run of the batch endpoint, handler of  *)
(* src/unnamed/part_007 lines 162-221, statement by statement.  Table      *)
(* stocks holds the committed rows.  While the run is on, call holds       *)
(*   pc       the position of the handler,                                 *)
(*   tx       whether the connection is inside BEGIN .. COMMIT/ROLLBACK,   *)
(*   work     the rows as the transaction sees them, up to its COMMIT,     *)
(*   start    the committed rows when the run began,                       *)
(*   pass     1 for the call of batchUpdateFinancialData of line 191, 2    *)
(*            for the call of line 204,                                    *)
(*   todo     the entries of financialData the loop has still to visit,    *)
(*   writes   per ticker, the UPDATE statements of the run that wrote its  *)
(*            row,                                                         *)
(*   outside  the tickers written by a statement run while tx was FALSE.   *)
(* A statement run outside a transaction commits by itself.                *)

\* batchUpdateMarketData, lines 27-56: the row of one ticker of marketData
updateMarket_batchMode(row, bar) ==
    [row EXCEPT !.last_price = bar.c,
                !.change_percent = IF JsGT(bar.o, 0) THEN JsPercent(bar.c, bar.o)
                                   ELSE Num(0),
                !.last_updated = Now]

\* batchUpdateFinancialData, lines 119-155: the UPDATE of one entry; the provider's
\* marketCapitalization is stored as it is
updateFinancial_batchMode(row, m) ==
    IF anyFundamental(m)
    THEN [guardedFundamentals(row, m, AsDollars(m.marketCapitalization))
             EXCEPT !.last_updated = Now]
    ELSE row

\* getStocksNeedingFinancialData, lines 59-73, on a table smaller than its LIMIT
getStocksNeedingFinancialData(table) ==
    {t \in DOMAIN table : table[t].last_price.k # "null"}

\* batchGetFinancialData, lines 76-109: the Map holds the tickers whose answer was
\* OK and had a metric, in the order in which the answers came
batchGetFinancialData(tickers, fins) ==
    RowOrders({t \in tickers : HasMetric(fins[t])})

BatchModeInit ==
    /\ stocks \in [Tickers -> SnapshotRows]
    /\ tags = [n \in RunNames |-> NoTag]
    /\ stock_tags = {}
    /\ update_stats = <<>>
    /\ call = NoCall
    /\ ret = [status |-> 0]

\* lines 164-189: the authorization test, BEGIN, the market data, the selection and
\* the first fetch of fundamentals.  updateRaises: the UPDATE of
\* batchUpdateMarketData raises
BatchMode_start ==
    /\ call = NoCall
    /\ \E authorized \in BOOLEAN, bars \in [Tickers -> ClearBars],
          fins \in [Tickers -> ClearFins], updateRaises \in BOOLEAN :
          LET marketData == {t \in Tickers : bars[t].k = "obj"}
              work == [t \in Tickers |->
                          IF t \in marketData THEN updateMarket_batchMode(stocks[t], bars[t])
                          ELSE stocks[t]]
              needing == getStocksNeedingFinancialData(work)
              run == [op |-> "batchMode", pc |-> "done", tx |-> FALSE, work |-> stocks,
                      start |-> stocks, pass |-> 1, todo |-> <<>>, fins |-> fins,
                      needing |-> {}, writes |-> [t \in Tickers |-> 0], outside |-> {}]
          IN  IF ~authorized
              THEN call' = run /\ ret' = [status |-> 401]
              ELSE IF marketData # {} /\ updateRaises
              THEN \* catch: ROLLBACK, 500
                   call' = run /\ ret' = [status |-> 500]
              ELSE \E todo \in batchGetFinancialData(needing, fins) :
                      /\ call' = [run EXCEPT
                                     !.pc = IF needing = {} THEN "commit" ELSE "update",
                                     !.tx = TRUE, !.work = work, !.todo = todo,
                                     !.needing = needing,
                                     !.writes = [t \in Tickers |->
                                                    IF t \in marketData THEN 1 ELSE 0]]
                      /\ UNCHANGED ret
    /\ UNCHANGED <<stocks, tags, stock_tags, update_stats>>

\* one turn of the loop of batchUpdateFinancialData, lines 119-156, or its return.
\* Inside the transaction the UPDATE changes call.work; after COMMIT it changes the
\* table at once.  An UPDATE that raises goes to the catch of line 210: ROLLBACK
\* (which undoes nothing when no transaction is open), 500
BatchMode_update ==
    /\ call.op = "batchMode" /\ call.pc = "update"
    /\ IF call.todo = <<>>
       THEN /\ call' = [call EXCEPT !.pc = IF call.pass = 1 THEN "commit" ELSE "respond"]
            /\ UNCHANGED <<stocks, ret>>
       ELSE LET t == Head(call.todo)
                m == call.fins[t].metric
                writes == anyFundamental(m)
            IN  \E updateRaises \in BOOLEAN :
                    IF writes /\ updateRaises
                    THEN /\ call' = [call EXCEPT !.pc = "done", !.tx = FALSE]
                         /\ ret' = [status |-> 500]
                         /\ UNCHANGED stocks
                    ELSE /\ call' = [call EXCEPT
                                !.todo = Tail(@),
                                !.work[t] = IF call.tx
                                            THEN updateFinancial_batchMode(@, m)
                                            ELSE @,
                                !.writes[t] = IF writes THEN @ + 1 ELSE @,
                                !.outside = IF writes /\ ~call.tx THEN @ \cup {t} ELSE @]
                         /\ stocks' = IF call.tx THEN stocks
                                      ELSE [stocks EXCEPT
                                               ![t] = updateFinancial_batchMode(@, m)]
                         /\ UNCHANGED ret
    /\ UNCHANGED <<tags, stock_tags, update_stats>>

\* line 195, COMMIT, and the evaluation of the response object of lines 199-208 up
\* to the second batchGetFinancialData of line 204
BatchMode_commit ==
    /\ call.op = "batchMode" /\ call.pc = "commit"
    /\ stocks' = call.work
    /\ \E fins \in [Tickers -> ClearFins] :
          \E todo \in batchGetFinancialData(call.needing, fins) :
              call' = [call EXCEPT !.tx = FALSE, !.pass = 2, !.fins = fins, !.todo = todo,
                                   !.pc = IF call.needing = {} THEN "respond" ELSE "update"]
    /\ UNCHANGED <<tags, stock_tags, update_stats, ret>>

\* line 199: res.status(200).json(...)
BatchMode_respond ==
    /\ call.op = "batchMode" /\ call.pc = "respond"
    /\ call' = [call EXCEPT !.pc = "done"]
    /\ ret' = [status |-> 200]
    /\ UNCHANGED <<stocks, tags, stock_tags, update_stats>>

BatchModeNext ==
    \/ BatchMode_start
    \/ BatchMode_update
    \/ BatchMode_commit
    \/ BatchMode_respond

SpecBatchMode == BatchModeInit /\ [][BatchModeNext]_vars

\* every write of the run happened inside its transaction
EveryBatchWriteIsInsideTheTransaction ==
    call.op = "batchMode" => call.outside = {}

\* no row was written by two UPDATE statements of the run
EachStockIsWrittenAtMostOnce ==
    call.op = "batchMode" => \A t \in Tickers : call.writes[t] <= 1

\* after a 500 the table is as it was when the run began
FailedBatchRunPersistsNothing ==
    (call.op = "batchMode" /\ ret.status = 500) => stocks = call.start

\* C36: in batch mode every write of a run to the store happens between the BEGIN
\* and the COMMIT or ROLLBACK of the run, each stock is written at most once in a
\* run, and after a 500 response no write of the run persists.
C36_BatchWritesAreInsideTheTransaction ==
    /\ EveryBatchWriteIsInsideTheTransaction
    /\ EachStockIsWrittenAtMostOnce
    /\ FailedBatchRunPersistsNothing

\* up to the COMMIT of line 195 every write is inside the transaction, and a
\* failure before it leaves the table as it was
WritesOfTheFirstPassAreInsideTheTransaction ==
    (call.op = "batchMode" /\ call.pass = 1) =>
        /\ call.outside = {}
        /\ stocks = call.start

\* the UPDATE statements of line 204 run after the COMMIT, outside the
\* transaction: what they write is in the table at once
SecondPassWritesOutsideTheTransaction ==
    (call.op = "batchMode" /\ call.pass = 2) =>
        /\ ~call.tx
        /\ \A t \in Tickers : stocks[t] # call.work[t] => t \in call.outside

\* a 500 answered during the second pass leaves the committed writes in the table
FailureAfterCommitKeepsTheWrites ==
    (call.op = "batchMode" /\ call.pass = 2 /\ ret.status = 500) =>
        \A t \in Tickers \ call.outside : stocks[t] = call.work[t]


-----------------------------------------------------------------------------
(* Specification SpecMix: committed runs of the four endpoints that file   *)
(* size or momentum tags, in any order and number, on a table of one       *)
(* stock whose price and market_cap change from run to run: the unified    *)
(* endpoint (src/pages/api/update-all-data.js), the endpoint of            *)
(* src/api/update-tags.js line 268, the tags-only endpoint                 *)
(* (src/unnamed/part_005) and the endpoint of src/api/update-all-data.js.  *)
(* call.runs counts the runs made, up to MaxMixRuns.                       *)

MaxMixRuns == 3

MixRunsMade == IF call.op = "run" THEN call.runs ELSE 0

MixInit ==
    /\ stocks = [t \in LifeTickers |-> NullRow]
    /\ tags = [n \in AllTagNames |-> NoTag]
    /\ stock_tags = {}
    /\ update_stats = <<>>
    /\ call = NoCall
    /\ ret = [status |-> 0, committed |-> FALSE]

\* a run: committed with the store st, or answered 200 with nothing stored
MixRun(variant, committed, newStocks, st) ==
    /\ MixRunsMade < MaxMixRuns
    /\ call' = [op |-> "run", variant |-> variant, runs |-> MixRunsMade + 1]
    /\ ret' = [status |-> 200, committed |-> committed]
    /\ stocks' = IF committed THEN newStocks ELSE stocks
    /\ tags' = IF committed THEN st.tags ELSE tags
    /\ stock_tags' = IF committed THEN st.stock_tags ELSE stock_tags
    /\ UNCHANGED update_stats

\* handler of src/pages/api/update-all-data.js, lines 156-330
Mix_unified ==
    \E bars \in [LifeTickers -> RunBars], fins \in [LifeTickers -> RunFins] :
        LET snapshot == snapshot_unified(bars)
            newStocks == [t \in LifeTickers |->
                             reconcile_unified(stocks[t], snapshot[t], fins[t])]
        IN  \E order \in RowOrders(LifeTickers) :
                MixRun("unified", TRUE, newStocks,
                        applyPlan_unified(clearDynamic_unified(Store),
                                          plan_unified(newStocks, order)))

\* handler of src/api/update-tags.js, lines 268-441
Mix_golden ==
    \E bars \in [LifeTickers -> RunBars], fins \in [LifeTickers -> RunFins] :
        LET newStocks == [t \in LifeTickers |->
                             reconcile_golden(stocks[t], bars[t], fins[t])]
        IN  MixRun("golden", TRUE, newStocks,
                    applyPlan_golden(clearDynamic_golden(Store), plan_golden(newStocks)))

\* handler of src/unnamed/part_005, lines 330-417
Mix_tagsOnly ==
    LET selected == {t \in DOMAIN stocks : stocks[t].last_price.k # "null"}
    IN  MixRun("tagsOnly", TRUE, stocks, updateTags_tagsOnly(Store, stocks, selected))

\* handler of src/api/update-all-data.js, lines 2-56.  applyTagToStock looks the
\* tag up by name and type 'dynamic'; when the name is there under another type
\* its INSERT INTO tags raises on the unique name, the catch of line 218 takes the
\* error, and the COMMIT of the aborted transaction stores nothing
Mix_unifiedB ==
    \E fetched \in BOOLEAN, bars \in [LifeTickers -> RunBars],
       fins \in [LifeTickers -> RunFins] :
        LET newStocks == IF fetched
                         THEN [t \in LifeTickers |->
                                  reconcile_unifiedB(stocks[t], bars[t], fins[t])]
                         ELSE stocks
            selected == {t \in LifeTickers : newStocks[t].last_price.k # "null"}
            names == UNION {calculateDynamicTags_unifiedB(newStocks[t]) : t \in selected}
            clash == \E n \in names : tags[n] \notin {NoTag, "dynamic"}
        IN  MixRun("unifiedB", ~clash, newStocks,
                    updateDynamicTags_unifiedB(Store, newStocks, selected))

MixNext ==
    \/ Mix_unified
    \/ Mix_golden
    \/ Mix_tagsOnly
    \/ Mix_unifiedB

SpecMix == MixInit /\ [][MixNext]_vars

\* no stock carries two tags of the size family
NoTwoSizeTags ==
    \A t \in LifeTickers : Cardinality(TagsOfTicker(Store, t) \cap SizeTags) <= 1

\* no stock carries two tags of the momentum family
NoTwoMomentumTags ==
    \A t \in LifeTickers : Cardinality(TagsOfTicker(Store, t) \cap MomentumTags) <= 1

\* C37: after any sequence of committed tag runs, in any order and mix of the
\* endpoints, no stock carries two different size tags and no stock carries two
\* different momentum tags.
C37_OneTagPerFamily ==
    NoTwoSizeTags /\ NoTwoMomentumTags

\* a size tag and a tag of another size on one stock are never both of type
\* 'dynamic': one of them was filed by src/api/update-tags.js under its own type
TwoSizeTagsDifferInType ==
    \A t \in LifeTickers :
        \A m, n \in TagsOfTicker(Store, t) \cap SizeTags :
            (m # n) => ~(tags[m] = "dynamic" /\ tags[n] = "dynamic")


-----------------------------------------------------------------------------
(* Specification SpecOverlap: two runs of the endpoint of                  *)
(* src/api/update-tags.js line 268 on two connections, statement by        *)
(* statement, under PostgreSQL's READ COMMITTED: a statement sees the rows *)
(* committed when it starts and the writes of its own transaction; a       *)
(* DELETE or UPDATE that meets a row written by an open transaction waits  *)
(* for that transaction to end and then skips the row if it is gone; an    *)
(* INSERT of a key that an open transaction has inserted, or whose row an  *)
(* open transaction has deleted, waits likewise, and raises a unique       *)
(* violation when a row with the key is there.  Table stock_tags has the   *)
(* key (stock_ticker, tag_id).  One tag is followed, OverlapTag, which an  *)
(* earlier run has filed.  A row of stock_tags is <<ticker, tag, w>>, w    *)
(* the run that inserted it (0 for an earlier run).  call holds, per run,  *)
(*   pc      the position of the handler,                                  *)
(*   bars    the market data the run fetched (no fundamentals),            *)
(*   locked  the stocks rows its UPDATE statements wrote,                  *)
(*   snap    the rows the DELETE in progress saw when it started,          *)
(*   del     the rows of stock_tags it has deleted, uncommitted,           *)
(*   ins     the rows of stock_tags it has inserted, uncommitted,          *)
(*   set     the tickers its filter of line 363 found for the tag.         *)
(* Both runs visit the companies in the same order.                        *)

OverlapTag == "HighGrowth"

OverlapActive(r) == call.pc[r] \notin {"idle", "done"}

\* the stocks rows as run r sees them: its own UPDATEs over the committed rows
OverlapView(r) ==
    [t \in Tickers |->
        IF t \in call.locked[r] THEN reconcile_golden(stocks[t], call.bars[r][t], FinNull)
        ELSE stocks[t]]

OverlapInit ==
    /\ stocks \in [Tickers -> {NullRow, ScenarioA}]
    /\ tags = [n \in RunNames |-> IF n = OverlapTag THEN "PricePerf" ELSE NoTag]
    /\ \E linked \in SUBSET Tickers : stock_tags = {<<t, OverlapTag, 0>> : t \in linked}
    /\ update_stats = <<>>
    /\ \E bars \in [Racers -> [Tickers -> ClearBars]] :
          call = [op |-> "overlap", pc |-> [r \in Racers |-> "idle"], bars |-> bars,
                  locked |-> [r \in Racers |-> {}], snap |-> [r \in Racers |-> {}],
                  del |-> [r \in Racers |-> {}], ins |-> [r \in Racers |-> {}],
                  set |-> [r \in Racers |-> {}], overlapped |-> FALSE, last |-> 0]
    /\ ret = [status |-> [r \in Racers |-> 0], raised |-> {}]

\* lines 277-346: BEGIN and the loop of UPDATE statements, which wait for the
\* other run to end when it has written one of the rows
Overlap_update(r) ==
    /\ call.op = "overlap" /\ call.pc[r] = "idle"
    /\ LET mine == {t \in Tickers : updates_golden(call.bars[r][t], FinNull) # {}}
       IN  /\ mine \cap call.locked[Other(r)] = {}
           /\ call' = [call EXCEPT !.pc[r] = "clear", !.locked[r] = mine,
                                   !.overlapped = @ \/ OverlapActive(Other(r)),
                                   !.last = r]
    /\ UNCHANGED <<stocks, tags, stock_tags, update_stats, ret>>

\* a DELETE starts: lines 352-358 (every tag outside the two kept types) and
\* line 251 of applyTag (the one tag); the rows it sees
Overlap_deleteStarts(r) ==
    /\ call.op = "overlap" /\ call.pc[r] \in {"clear", "delete"}
    /\ call' = [call EXCEPT !.snap[r] = (stock_tags \ call.del[r]) \cup call.ins[r],
                            !.pc[r] = IF @ = "clear" THEN "clearing" ELSE "deleting"]
    /\ UNCHANGED <<stocks, tags, stock_tags, update_stats, ret>>

\* the DELETE ends, once no row it saw is held by the other run: it removes the
\* rows that are still there
Overlap_deleteEnds(r) ==
    /\ call.op = "overlap" /\ call.pc[r] \in {"clearing", "deleting"}
    /\ call.snap[r] \cap call.del[Other(r)] = {}
    /\ call' = [call EXCEPT !.del[r] = @ \cup (call.snap[r] \cap stock_tags),
                            !.ins[r] = @ \ call.snap[r],
                            !.snap[r] = {},
                            !.pc[r] = IF @ = "clearing" THEN "select" ELSE "insert"]
    /\ UNCHANGED <<stocks, tags, stock_tags, update_stats, ret>>

\* lines 361-370: SELECT ... FROM stocks WHERE last_price IS NOT NULL, the filter
\* for the tag, and the first line of applyTag, which returns on an empty list
Overlap_select(r) ==
    /\ call.op = "overlap" /\ call.pc[r] = "select"
    /\ LET found == plan_golden(OverlapView(r))[1][3]
       IN  call' = [call EXCEPT !.set[r] = found,
                                !.pc[r] = IF found = {} THEN "commit" ELSE "delete"]
    /\ UNCHANGED <<stocks, tags, stock_tags, update_stats, ret>>

\* the rows of stock_tags with a key of run r's set that r has not deleted
OverlapLive(r) == {p \in stock_tags \ call.del[r] : p[1] \in call.set[r]}

\* lines 254-262 of applyTag: INSERT INTO stock_tags without ON CONFLICT.  On a
\* unique violation the catch of line 434 sends ROLLBACK and answers 500
Overlap_insert(r) ==
    /\ call.op = "overlap" /\ call.pc[r] = "insert"
    /\ LET o == Other(r)
           there == OverlapLive(r) \ call.del[o]
           waits == \/ OverlapLive(r) \cap call.del[o] # {}
                    \/ \E p \in call.ins[o] : p[1] \in call.set[r]
       IN  /\ there # {} \/ ~waits
           /\ IF there # {}
              THEN /\ call' = [call EXCEPT !.pc[r] = "done", !.locked[r] = {},
                                           !.del[r] = {}, !.ins[r] = {}]
                   /\ ret' = [ret EXCEPT !.status[r] = 500, !.raised = @ \cup {r}]
              ELSE /\ call' = [call EXCEPT
                                  !.pc[r] = "commit",
                                  !.ins[r] = {<<t, OverlapTag, r>> : t \in call.set[r]}]
                   /\ UNCHANGED ret
    /\ UNCHANGED <<stocks, tags, stock_tags, update_stats>>

\* line 432: COMMIT, and the 200 response
Overlap_commit(r) ==
    /\ call.op = "overlap" /\ call.pc[r] = "commit"
    /\ stocks' = OverlapView(r)
    /\ stock_tags' = (stock_tags \ call.del[r]) \cup call.ins[r]
    /\ call' = [call EXCEPT !.pc[r] = "done", !.locked[r] = {}, !.del[r] = {},
                            !.ins[r] = {}]
    /\ ret' = [ret EXCEPT !.status[r] = 200]
    /\ UNCHANGED <<tags, update_stats>>

OverlapNext ==
    \E r \in Racers :
        \/ Overlap_update(r)
        \/ Overlap_deleteStarts(r)
        \/ Overlap_deleteEnds(r)
        \/ Overlap_select(r)
        \/ Overlap_insert(r)
        \/ Overlap_commit(r)

SpecOverlap == OverlapInit /\ [][OverlapNext]_vars

OverlapBothCommitted ==
    /\ call.op = "overlap"
    /\ \A r \in Racers : call.pc[r] = "done" /\ ret.status[r] = 200

\* neither run raised a unique violation
NoRunFailsOnADuplicate ==
    call.op = "overlap" => ret.raised = {}

\* after both commits the tag has the set of one of the runs
TagHasTheSetOfOneRun ==
    OverlapBothCommitted => TickersOf(Store, OverlapTag) \in {call.set[r] : r \in Racers}

\* C38: when two tag-recompute runs overlap in time, after both have committed the
\* associations of a tag are the set that one of the two runs computed, never the
\* union or a mix of both, and neither run fails on a (ticker, tag) pair that the
\* other inserted.
C38_OverlappingRunsLeaveOneRunsSet ==
    NoRunFailsOnADuplicate /\ TagHasTheSetOfOneRun

\* runs that did not overlap: the second began after the first had ended.  No run
\* fails, and the tag has the set of the second
RunsInTurnLeaveTheLastSet ==
    (call.op = "overlap" /\ ~call.overlapped) =>
        /\ ret.raised = {}
        /\ OverlapBothCommitted => TickersOf(Store, OverlapTag) = call.set[call.last]

\* whatever the overlap, the tag never has a ticker that neither run computed,
\* and no key is stored twice
OverlapStoresOnlyComputedTickers ==
    /\ OverlapBothCommitted =>
           TickersOf(Store, OverlapTag) \subseteq UNION {call.set[r] : r \in Racers}
    /\ \A p, q \in stock_tags : (p[1] = q[1] /\ p[2] = q[2]) => p = q


-----------------------------------------------------------------------------
(* Specification SpecMock: one request to the unified endpoint, handler of *)
(* src/pages/api/update-all-data.js lines 156-331, with the database       *)
(* configuration of the process and the outcome of pool.connect() as       *)
(* inputs.  ret.success and ret.mode are the fields of the response body   *)
(* (mode "" when the body has none); ret.committed tells whether the       *)
(* transaction of the request was committed.                               *)

\* dbUrl.includes(part), on a text held as a sequence of its parts
Includes(text, part) == \E i \in 1..Len(text.s) : text.s[i] = part

\* shouldUseMockData, lines 5-8
shouldUseMockData(dbUrl) ==
    \/ dbUrl.k # "str" \/ dbUrl.s = <<>>
    \/ Includes(dbUrl, "your-database-url")
    \/ Includes(dbUrl, "placeholder")

DbUrls ==
    {Absent, Str(<<>>), Str(<<"postgresql://user@", "your-database-url", "/db">>),
     Str(<<"postgresql://", "placeholder">>), Str(<<"postgresql://user@host/db">>)}

MockInit ==
    /\ stocks \in [Tickers -> SnapshotRows]
    /\ tags = [n \in RunNames |-> NoTag]
    /\ stock_tags = {}
    /\ update_stats = <<>>
    /\ call = NoCall
    /\ ret = [status |-> 0, success |-> FALSE, mode |-> "", committed |-> FALSE]

MockRespond(request, status, success, mode, committed, newStocks, st) ==
    /\ call' = request
    /\ ret' = [status |-> status, success |-> success, mode |-> mode,
               committed |-> committed]
    /\ stocks' = newStocks
    /\ tags' = st.tags
    /\ stock_tags' = st.stock_tags
    /\ UNCHANGED update_stats

\* connectFails: pool.connect() rejects; queryRaises: a statement of the try block
\* outside applyTag raises; raisesAt: the applyTag call a statement of which raises
\* (0: none)
Request_unified ==
    /\ call = NoCall
    /\ \E header \in GateHeaders, env \in GateEnvs, dbUrl \in DbUrls,
          connectFails \in BOOLEAN, queryRaises \in BOOLEAN,
          bars \in [Tickers -> ClearBars], fins \in [Tickers -> ClearFins],
          order \in RowOrders(Tickers) :
          LET request == [op |-> "request", header |-> header, dbUrl |-> dbUrl,
                          connected |-> ~shouldUseMockData(dbUrl) /\ ~connectFails]
              snapshot == snapshot_unified(bars)
              newStocks == [t \in Tickers |->
                               reconcile_unified(stocks[t], snapshot[t], fins[t])]
              plan == plan_unified(newStocks, order)
          IN  IF ~inlineAuth(header, env)
              THEN MockRespond([request EXCEPT !.connected = FALSE], 401, FALSE, "",
                               FALSE, stocks, Store)
              ELSE IF shouldUseMockData(dbUrl)
              THEN \* lines 164-172; pool is null exactly then (line 10)
                   MockRespond(request, 200, TRUE, "mock", FALSE, stocks, Store)
              ELSE IF connectFails
              THEN \* lines 175-187
                   MockRespond(request, 200, TRUE, "mock", FALSE, stocks, Store)
              ELSE IF queryRaises
              THEN \* lines 321-328: ROLLBACK, 500
                   MockRespond(request, 500, FALSE, "", FALSE, stocks, Store)
              ELSE \E raisesAt \in 0..activeCalls(plan) :
                      LET loop == tagsLoop_unified(clearDynamic_unified(Store), plan,
                                                   raisesAt, FALSE, <<>>)
                      IN  IF loop.aborted
                          THEN \* the COMMIT of line 303 ends the aborted transaction
                               \* as a rollback and does not raise
                               MockRespond(request, 200, TRUE, "", FALSE, stocks, Store)
                          ELSE MockRespond(request, 200, TRUE, "", TRUE, newStocks,
                                           loop.st)

MockNext == Request_unified

SpecMock == MockInit /\ [][MockNext]_vars

\* C39: the unified endpoint answers 200 with success: true only after the
\* transaction of the request has committed; when the database is not configured
\* or no connection can be obtained, no success is reported.
C39_SuccessOnlyAfterCommit ==
    call.op = "request" =>
        /\ (ret.status = 200 /\ ret.success) => ret.committed
        /\ ~call.connected => ~ret.success

\* without a connection an authorized request is answered 200, success: true,
\* mode "mock", and nothing is written
NoConnectionIsAnsweredAsMockSuccess ==
    (call.op = "request" /\ ~call.connected /\ ret.status # 401) =>
        /\ ret.status = 200 /\ ret.success /\ ret.mode = "mock"
        /\ ~ret.committed
        /\ stock_tags = {}

\* a response without mode "mock" that reports success was sent after COMMIT, and
\* a 500 reports no success
RealRunAnswersAfterCommit ==
    call.op = "request" =>
        /\ (ret.status = 200 /\ ret.mode = "") => call.connected
        /\ ret.status = 500 => (~ret.success /\ ~ret.committed)
        /\ ret.committed => (ret.status = 200 /\ ret.success /\ ret.mode = "")

=============================================================================
